---- MODULE Spec2Model ----
(***************************************************************************)
(* Model of the jigsaw puzzle application: the grid solver                 *)
(* (src/puzzle/grid.ts), the piece generator and shuffle                   *)
(* (generatePieces.ts, second half of src/unnamed/part_001) and the        *)
(* placement session of the React component App (src/unnamed/part_001,     *)
(* lines 961-3290).                                                        *)
(*                                                                         *)
(* React state is modelled by one variable per useState cell.  An event    *)
(* handler runs to completion and React re-renders and flushes the         *)
(* effects before the next event is delivered, so one action is one        *)
(* handler followed by the effects its updates trigger.  An async handler  *)
(* is two actions: the part before `await generatePieces` and the part     *)
(* after it; for the real piece counts (50..1000) generatePieces yields    *)
(* to the event loop every 24 pieces, so user events interleave between    *)
(* the two parts.  The values an async handler closes over are kept in     *)
(* the in-flight record `gen`.                                             *)
(*                                                                         *)
(* Arrays are sequences; the array index i is the sequence index i+1.      *)
(***************************************************************************)
EXTENDS Integers, Sequences, FiniteSets, TLC

\* ------------------------------------------------------------------------
\* Bounds and inputs
\* ------------------------------------------------------------------------

\* Largest piece count offered by the piece-count selector of the model
\* (the application offers 50..1000).
MaxCount == 2

\* The piece counts the user can choose.
PIECE_COUNTS == 1..MaxCount

\* Pixel sizes <<w, h>> of the images the user can analyse in the modal.
Images == { <<120, 60>>, <<30, 60>> }

\* null for an id (selectedPieceId, a cell of placements).
NULL == -1

\* What reading an array beyond its length gives (undefined).
UNDEF == -2

\* grid === null
NoGrid == [rows |-> 0, cols |-> 0, count |-> 0]

\* zoomCells when no zone is selected: useState<...>(null).
NoZone == [r0 |-> NULL, c0 |-> NULL, r1 |-> NULL, c1 |-> NULL]

\* loadedImage === null
NoImage == <<0, 0>>

Rotations == {0, 90, 180, 270}

\* ------------------------------------------------------------------------
\* Array helpers
\* ------------------------------------------------------------------------

\* arr[i] of a JavaScript array: undefined beyond the length.
At(arr, i) == IF i >= 0 /\ i < Len(arr) THEN arr[i + 1] ELSE UNDEF

\* piecesById[i] !== undefined
HasPiece(pieces, i) == i >= 0 /\ i < Len(pieces)

\* out[i] = v on a copy of arr; an index beyond the length extends the
\* array, the skipped cells are holes.
SetAt(arr, i, v) ==
    IF i < Len(arr)
    THEN [arr EXCEPT ![i + 1] = v]
    ELSE [k \in 1..(i + 1) |-> IF k <= Len(arr) THEN arr[k]
                               ELSE IF k = i + 1 THEN v ELSE UNDEF]

\* arr.indexOf(id), -1 when absent.
IndexOf(arr, id) ==
    IF \E k \in 1..Len(arr) : arr[k] = id
    THEN (CHOOSE k \in 1..Len(arr) : arr[k] = id /\ \A m \in 1..(k - 1) : arr[m] # id) - 1
    ELSE -1

\* arr.splice(idx, 1)
Splice1(arr, idx) ==
    [k \in 1..(Len(arr) - 1) |-> IF k <= idx THEN arr[k] ELSE arr[k + 1]]

\* Mutant of removeFromArray: drops the last element whatever the id.
removeFromArray_dropsLast(arr, id) ==
    IF Len(arr) > 0 THEN Splice1(arr, Len(arr) - 1) ELSE arr

removeFromArray(arr, id) ==
    LET idx == IndexOf(arr, id) IN
    IF idx >= 0 THEN Splice1(arr, idx) ELSE arr

\* Mutant of Swap: arr[i] is overwritten, arr[j] is left as it was.
Swap_overwrites(arr, i, j) ==
    [arr EXCEPT ![i + 1] = arr[j + 1]]

\* [arr[i], arr[j]] = [arr[j], arr[i]]
Swap(arr, i, j) ==
    [arr EXCEPT ![i + 1] = arr[j + 1], ![j + 1] = arr[i + 1]]

\* All results of the loop of shuffleInPlace from index i down to 1, j being
\* Math.floor(Math.random() * (i + 1)).
RECURSIVE ShuffleFrom(_, _)
ShuffleFrom(arr, i) ==
    IF i <= 0 THEN {arr}
    ELSE UNION { ShuffleFrom(Swap(arr, i, j), i - 1) : j \in 0..i }

shuffleInPlace(arr) == ShuffleFrom(arr, Len(arr) - 1)

\* ------------------------------------------------------------------------
\* Grid solver (src/puzzle/grid.ts)
\* ------------------------------------------------------------------------

\* Mutant of DivisorSet: every number up to n is taken for a divisor.
DivisorSet_all(n) == 1..n

\* Mutant of DivisorSet: only i is pushed, never n / i.
DivisorSet_lowHalf(n) == { k \in 1..n : k * k <= n /\ n % k = 0 }

\* The set of values pushed by the loop of divisors(n).
DivisorSet(n) ==
    UNION { {i, n \div i} : i \in { k \in 1..n : k * k <= n /\ n % k = 0 } }

RECURSIVE SortAsc(_)
SortAsc(S) ==
    IF S = {} THEN <<>>
    ELSE LET m == CHOOSE x \in S : \A y \in S : x <= y
         IN <<m>> \o SortAsc(S \ {m})

divisors(n) == SortAsc(DivisorSet(n))

\* Mutant of Score: the ratio is taken as rows/cols.
Score_inverted(rows, cols, w, h) ==
    LET num == rows * h
        den == cols * w
    IN  IF num >= den THEN [hi |-> num, lo |-> den, rows |-> rows]
        ELSE [hi |-> den, lo |-> num, rows |-> rows]

\* Math.abs(Math.log(ratio / imageAspect)) for ratio = cols/rows and
\* imageAspect = w/h, kept as the exact fraction hi/lo >= 1 whose logarithm
\* it is, |ln(x)| = ln(max(x, 1/x)), together with the rows of the pair it
\* was computed for.
Score(rows, cols, w, h) ==
    LET num == cols * h
        den == rows * w
    IN  IF num >= den THEN [hi |-> num, lo |-> den, rows |-> rows]
        ELSE [hi |-> den, lo |-> num, rows |-> rows]

\* The scores are doubles: cols/rows, w/h and their quotient are rounded
\* and Math.log is implementation-approximated.  Two scores that differ as
\* real numbers differ by far more than the rounding; two scores that are
\* equal as real numbers belong to two pairs whose ratios x and 1/x are
\* rounded separately, and as doubles the score of the pair with the larger
\* rows is lower than ("lt"), equal to ("eq") or greater than ("gt") the
\* score of the pair with the smaller rows.  When x is a power of two the
\* quotients are exact and the two doubles are k * ln2 and -k * ln2: equal.
Rounding == {"lt", "eq", "gt"}

RECURSIVE IsPowerOfTwo(_)
IsPowerOfTwo(n) == n = 1 \/ (n > 1 /\ n % 2 = 0 /\ IsPowerOfTwo(n \div 2))

\* The doubles of two scores equal as real numbers are equal.
ExactTie(a, b) ==
    a.rows = b.rows \/ (a.hi % a.lo = 0 /\ IsPowerOfTwo(a.hi \div a.lo))

\* Mutant of ScoreLess: the comparison is reversed.
ScoreLess_reversed(a, b, rnd) ==
    IF a.hi * b.lo # b.hi * a.lo THEN a.hi * b.lo > b.hi * a.lo
    ELSE IF ExactTie(a, b) THEN FALSE
    ELSE IF a.rows > b.rows THEN rnd = "lt" ELSE rnd = "gt"

\* a < b for the doubles of two scores, under the rounding rnd.
ScoreLess(a, b, rnd) ==
    IF a.hi * b.lo # b.hi * a.lo THEN a.hi * b.lo < b.hi * a.lo
    ELSE IF ExactTie(a, b) THEN FALSE
    ELSE IF a.rows > b.rows THEN rnd = "lt" ELSE rnd = "gt"

\* The loop over the divisors: best starts at {1, pieceCount, +Infinity}
\* (inf marks the infinite score) and is replaced on a strictly smaller
\* score.
RECURSIVE BestOver(_, _, _, _, _, _, _)
BestOver(ds, k, best, pieceCount, w, h, rnd) ==
    IF k > Len(ds) THEN best
    ELSE LET rows == ds[k]
             cols == pieceCount \div ds[k]
             score == Score(rows, cols, w, h)
             next == IF best.inf \/ ScoreLess(score, best.score, rnd)
                     THEN [rows |-> rows, cols |-> cols, score |-> score, inf |-> FALSE]
                     ELSE best
         IN BestOver(ds, k + 1, next, pieceCount, w, h, rnd)

\* findBestGrid(pieceCount, w / h), the doubles rounding as rnd.
findBestGrid(pieceCount, w, h, rnd) ==
    LET best == BestOver(divisors(pieceCount), 1,
                         [rows |-> 1, cols |-> pieceCount,
                          score |-> [hi |-> 1, lo |-> 1, rows |-> 0], inf |-> TRUE],
                         pieceCount, w, h, rnd)
    IN  IF ScoreLess(Score(best.cols, best.rows, w, h), Score(best.rows, best.cols, w, h), rnd)
        THEN [rows |-> best.cols, cols |-> best.rows, count |-> pieceCount]
        ELSE [rows |-> best.rows, cols |-> best.cols, count |-> pieceCount]

\* Math.floor(x * scale) with scale = Math.min(1, 900 / Math.max(w, h)).
ScaledFloor(len, parts, w, h) ==
    LET m == IF w >= h THEN w ELSE h IN
    IF m <= 900 THEN len \div parts ELSE (len * 900) \div (parts * m)

estimateQualityForCount(w, h, count, rnd) ==
    LET g == findBestGrid(count, w, h, rnd)
        tileW == ScaledFloor(w, g.cols, w, h)
        tileH == ScaledFloor(h, g.rows, w, h)
        tilePx == IF tileW <= tileH THEN tileW ELSE tileH
    IN  [ok |-> tilePx >= 28, tilePx |-> tilePx, grid |-> g]

\* ------------------------------------------------------------------------
\* Piece generation (generatePieces)
\* ------------------------------------------------------------------------

\* The rotations a new piece can get: randomRotation90() when
\* opts.randomRotation, 0 otherwise.
NewRotations(randomRotation) == IF randomRotation THEN Rotations ELSE {0}

\* All arrays generatePieces(image, g, {randomRotation}) can resolve to: one
\* piece per (r, c) in row-major order, id = r * cols + c, placed = false.
generatePieces(g, randomRotation) ==
    LET total == g.rows * g.cols IN
    { [k \in 1..total |->
          [id |-> k - 1, row |-> (k - 1) \div g.cols, col |-> (k - 1) % g.cols,
           rotation |-> rot[k], placed |-> FALSE]] :
      rot \in [1..total -> NewRotations(randomRotation)] }

\* byId.map((p) => p.id)
IdsOf(pieces) == [k \in 1..Len(pieces) |-> pieces[k].id]

\* Array(n).fill(null)
NullArray(n) == [k \in 1..n |-> NULL]

\* ------------------------------------------------------------------------
\* Session state
\* ------------------------------------------------------------------------

VARIABLES
    pieceCount,        \* selected piece count
    rotationEnabled,
    loadedImage,       \* <<w, h>> of the loaded image (imageSize, imageAspect), NoImage for null
    grid,
    piecesById,
    trayOrder,
    placements,
    selectedPieceId,
    isGenerating,
    error,             \* TRUE when the generation error message is set
    boardFlash,        \* type of the last feedback: "none" (null), "good", "bad", "warn"
    isModalOpen,
    gen,               \* the generatePieces call in flight and what its caller closed over
    zoomCells,         \* the zone [r0, c0, r1, c1] the board is zoomed on, NoZone for null
    filterByZoom,
    filterEdgesOnly,
    resetConfirmOpen   \* the confirmation dialog of "Réinitialiser" is shown

vars == <<pieceCount, rotationEnabled, loadedImage, grid, piecesById, trayOrder,
          placements, selectedPieceId, isGenerating, error, boardFlash,
          isModalOpen, gen, zoomCells, filterByZoom, filterEdgesOnly,
          resetConfirmOpen>>

\* gen.done is the number of pieces generatePieces has pushed to its local
\* array so far.
NoGen == [kind |-> "none", grid |-> NoGrid, randomRotation |-> FALSE, done |-> 0]

\* ------------------------------------------------------------------------
\* Pure helpers of App
\* ------------------------------------------------------------------------

\* Mutant of rotate90: 270 goes to 90, rotation 0 is skipped.
rotate90_skipsZero(r) ==
    CASE r = 0 -> 90
      [] r = 90 -> 180
      [] r = 180 -> 270
      [] r = 270 -> 90

rotate90(r) ==
    CASE r = 0 -> 90
      [] r = 90 -> 180
      [] r = 180 -> 270
      [] r = 270 -> 0

\* Mutant of isPieceCorrect: no piece is ever reported correct.
isPieceCorrect_never(piece, plc, rotEnabled) == FALSE

isPieceCorrect(piece, plc, rotEnabled) ==
    LET onCorrectCell == At(plc, piece.id) = piece.id
        rotationOk == ~rotEnabled \/ piece.rotation = 0
    IN  piece.placed /\ onCorrectCell /\ rotationOk

\* setPieceRotation: the updater of setPiecesById.
setPieceRotation(prev, pieceId, next) ==
    IF ~HasPiece(prev, pieceId) THEN prev
    ELSE [prev EXCEPT ![pieceId + 1].rotation = next]

\* rotatePiece90(pieceId): the next piecesById.
rotatePiece90(pieces, pieceId) ==
    IF ~HasPiece(pieces, pieceId) THEN pieces
    ELSE setPieceRotation(pieces, pieceId, rotate90(pieces[pieceId + 1].rotation))

\* Mutant of placePiece: the piece is not removed from the tray.
placePiece_keepsTray(pieces, plc, tray, pieceId, cellIndex) ==
    [piecesById |-> IF ~HasPiece(pieces, pieceId) THEN pieces
                    ELSE [pieces EXCEPT ![pieceId + 1].placed = TRUE],
     placements |-> SetAt(plc, cellIndex, pieceId),
     trayOrder  |-> tray]

\* placePiece(pieceId, cellIndex): the three updaters applied to the
\* current piecesById, placements and trayOrder.
placePiece(pieces, plc, tray, pieceId, cellIndex) ==
    [piecesById |-> IF ~HasPiece(pieces, pieceId) THEN pieces
                    ELSE [pieces EXCEPT ![pieceId + 1].placed = TRUE],
     placements |-> SetAt(plc, cellIndex, pieceId),
     trayOrder  |-> removeFromArray(tray, pieceId)]

\* Mutant of unplacePiece: the id is put in front of the tray even when the
\* tray holds it.
unplacePiece_prepends(pieces, plc, tray, pieceId) ==
    [piecesById |-> IF ~HasPiece(pieces, pieceId) \/ ~pieces[pieceId + 1].placed THEN pieces
                    ELSE [pieces EXCEPT ![pieceId + 1].placed = FALSE],
     placements |-> LET idx == IndexOf(plc, pieceId) IN
                    IF idx < 0 THEN plc ELSE [plc EXCEPT ![idx + 1] = NULL],
     trayOrder  |-> <<pieceId>> \o tray]

\* Mutant of unplacePiece: the piece goes to the back of the tray.
unplacePiece_toBack(pieces, plc, tray, pieceId) ==
    [piecesById |-> IF ~HasPiece(pieces, pieceId) \/ ~pieces[pieceId + 1].placed THEN pieces
                    ELSE [pieces EXCEPT ![pieceId + 1].placed = FALSE],
     placements |-> LET idx == IndexOf(plc, pieceId) IN
                    IF idx < 0 THEN plc ELSE [plc EXCEPT ![idx + 1] = NULL],
     trayOrder  |-> IF IndexOf(tray, pieceId) >= 0 THEN tray ELSE tray \o <<pieceId>>]

\* unplacePiece(pieceId): the three updaters.
unplacePiece(pieces, plc, tray, pieceId) ==
    [piecesById |-> IF ~HasPiece(pieces, pieceId) \/ ~pieces[pieceId + 1].placed THEN pieces
                    ELSE [pieces EXCEPT ![pieceId + 1].placed = FALSE],
     placements |-> LET idx == IndexOf(plc, pieceId) IN
                    IF idx < 0 THEN plc ELSE [plc EXCEPT ![idx + 1] = NULL],
     trayOrder  |-> IF IndexOf(tray, pieceId) >= 0 THEN tray ELSE <<pieceId>> \o tray]

\* Mutant of solvePuzzle: the rotations are kept.
solvePuzzle_keepsRotation(pieces, g) ==
    [piecesById |-> [k \in 1..Len(pieces) |-> [pieces[k] EXCEPT !.placed = TRUE]],
     placements |-> [k \in 1..g.count |-> k - 1],
     trayOrder  |-> <<>>]

\* solvePuzzle(): the values set for piecesById, placements and trayOrder.
solvePuzzle(pieces, g) ==
    [piecesById |-> [k \in 1..Len(pieces) |-> [pieces[k] EXCEPT !.rotation = 0, !.placed = TRUE]],
     placements |-> [k \in 1..g.count |-> k - 1],
     trayOrder  |-> <<>>]

\* Mutant of regenerateMerge: the last regenerated piece is lost.
regenerateMerge_dropsLast(prev, byId) ==
    [k \in 1..(Len(byId) - 1) |->
        IF ~HasPiece(prev, byId[k].id) THEN byId[k]
        ELSE [byId[k] EXCEPT !.rotation = prev[byId[k].id + 1].rotation,
                             !.placed = prev[byId[k].id + 1].placed]]

\* Mutant of regenerateMerge: the generated pieces replace the old ones.
regenerateMerge_overwrites(prev, byId) == byId

\* The merge of regeneratePieceImages: new assets, old rotation and placed.
regenerateMerge(prev, byId) ==
    [k \in 1..Len(byId) |->
        IF ~HasPiece(prev, byId[k].id) THEN byId[k]
        ELSE [byId[k] EXCEPT !.rotation = prev[byId[k].id + 1].rotation,
                             !.placed = prev[byId[k].id + 1].placed]]

\* ------------------------------------------------------------------------
\* Effects
\* ------------------------------------------------------------------------

\* The effect that releases the selection once the selected piece is on its
\* cell in the right orientation: the next selectedPieceId.
selectionReleaseEffect(sel, pieces, plc, rotEnabled, g) ==
    IF ~rotEnabled THEN sel
    ELSE IF sel = NULL THEN sel
    ELSE IF g = NoGrid THEN sel
    ELSE IF ~HasPiece(pieces, sel) THEN sel
    ELSE IF ~pieces[sel + 1].placed THEN sel
    ELSE IF At(plc, pieces[sel + 1].id) # pieces[sel + 1].id THEN sel
    ELSE IF pieces[sel + 1].rotation # 0 THEN sel
    ELSE NULL

\* Mutant of rotationDisabledEffect: the rotations are left as they are.
rotationDisabledEffect_noop(prev, rotEnabled) == prev

\* The effect on [rotationEnabled]: with rotation disabled every piece is
\* put back to rotation 0.
rotationDisabledEffect(prev, rotEnabled) ==
    IF rotEnabled THEN prev
    ELSE [k \in 1..Len(prev) |-> [prev[k] EXCEPT !.rotation = 0]]

\* ------------------------------------------------------------------------
\* Zoom zone and tray filters
\* ------------------------------------------------------------------------

\* p.row >= zoomCells.r0 && p.row <= zoomCells.r1 && p.col >= zoomCells.c0
\* && p.col <= zoomCells.c1
InZone(p, zc) == p.row >= zc.r0 /\ p.row <= zc.r1 /\ p.col >= zc.c0 /\ p.col <= zc.c1

\* p.row === 0 || p.row === grid.rows - 1 || p.col === 0 || p.col === grid.cols - 1
IsEdgePiece(p, g) ==
    p.row = 0 \/ p.row = g.rows - 1 \/ p.col = 0 \/ p.col = g.cols - 1

\* Mutant of trayCandidatesOf: the availability of edge pieces is computed
\* over the whole tray, whatever the zone.
trayCandidatesOf_edgesOfBase(tray, pieces, plc, rotEnabled, g, zc, byZoom, edgesOnly) ==
    LET base == SelectSeq(tray, LAMBDA id :
                    HasPiece(pieces, id) /\ ~isPieceCorrect(pieces[id + 1], plc, rotEnabled))
        zoneFiltered ==
            IF byZoom /\ zc # NoZone
            THEN SelectSeq(base, LAMBDA id : g # NoGrid /\ InZone(pieces[id + 1], zc))
            ELSE base
        edgesAvailable ==
            g # NoGrid /\ \E k \in 1..Len(base) : IsEdgePiece(pieces[base[k] + 1], g)
        edgesFiltered ==
            IF edgesOnly /\ edgesAvailable /\ g # NoGrid
            THEN SelectSeq(zoneFiltered, LAMBDA id : IsEdgePiece(pieces[id + 1], g))
            ELSE zoneFiltered
    IN  [ids |-> edgesFiltered, edgesAvailable |-> edgesAvailable]

\* The memo trayCandidates as a function of what it depends on: the ids the
\* tray shows and whether an edge piece is available.
trayCandidatesOf(tray, pieces, plc, rotEnabled, g, zc, byZoom, edgesOnly) ==
    LET base == SelectSeq(tray, LAMBDA id :
                    HasPiece(pieces, id) /\ ~isPieceCorrect(pieces[id + 1], plc, rotEnabled))
        baseInZone ==
            IF zc # NoZone /\ g # NoGrid
            THEN SelectSeq(base, LAMBDA id : InZone(pieces[id + 1], zc))
            ELSE base
        zoneFiltered ==
            IF byZoom /\ zc # NoZone
            THEN SelectSeq(base, LAMBDA id : g # NoGrid /\ InZone(pieces[id + 1], zc))
            ELSE base
        from == IF zc # NoZone THEN baseInZone ELSE zoneFiltered
        edgesAvailable ==
            g # NoGrid /\ \E k \in 1..Len(from) : IsEdgePiece(pieces[from[k] + 1], g)
        edgesFiltered ==
            IF edgesOnly /\ edgesAvailable /\ g # NoGrid
            THEN SelectSeq(zoneFiltered, LAMBDA id : IsEdgePiece(pieces[id + 1], g))
            ELSE zoneFiltered
    IN  [ids |-> edgesFiltered, edgesAvailable |-> edgesAvailable]

\* The effect on [filterByZoom, piecesById, selectedPieceId, zoomCells]: with
\* the zone filter on, a selected piece outside the zone is deselected.
zoneSelectionEffect(sel, pieces, byZoom, zc) ==
    IF ~byZoom THEN sel
    ELSE IF zc = NoZone THEN sel
    ELSE IF sel = NULL THEN sel
    ELSE IF HasPiece(pieces, sel) /\ InZone(pieces[sel + 1], zc) THEN sel
    ELSE NULL

\* Mutant of edgeFilterEffect: the filter is switched off as soon as a zone
\* is selected.
edgeFilterEffect_offInZone(edgesOnly, tray, pieces, plc, rotEnabled, g, zc, byZoom) ==
    IF ~edgesOnly THEN FALSE
    ELSE IF zc # NoZone THEN FALSE
    ELSE \E k \in 1..Len(tray) :
            /\ HasPiece(pieces, tray[k])
            /\ ~isPieceCorrect(pieces[tray[k] + 1], plc, rotEnabled)
            /\ g # NoGrid
            /\ IsEdgePiece(pieces[tray[k] + 1], g)

\* Mutant of edgeFilterEffect: the filter is never switched off.
edgeFilterEffect_keeps(edgesOnly, tray, pieces, plc, rotEnabled, g, zc, byZoom) == edgesOnly

\* The effect on [edgePiecesAvailable, filterEdgesOnly]: the edge filter is
\* switched off when no edge piece is available; the next filterEdgesOnly.
edgeFilterEffect(edgesOnly, tray, pieces, plc, rotEnabled, g, zc, byZoom) ==
    IF ~edgesOnly THEN FALSE
    ELSE trayCandidatesOf(tray, pieces, plc, rotEnabled, g, zc, byZoom, TRUE).edgesAvailable

\* The filter cells after a handler that writes none of them.
FilterEffects ==
    /\ zoomCells' = zoomCells
    /\ filterByZoom' = filterByZoom
    /\ filterEdgesOnly' = edgeFilterEffect(filterEdgesOnly, trayOrder', piecesById',
                                           placements', rotationEnabled', grid',
                                           zoomCells, filterByZoom)

\* ------------------------------------------------------------------------
\* Initial state: the component as mounted (useState initial values), the
\* image-selection modal open, no puzzle.
\* ------------------------------------------------------------------------

Init ==
    /\ pieceCount \in PIECE_COUNTS
    /\ rotationEnabled = TRUE
    /\ loadedImage = NoImage
    /\ grid = NoGrid
    /\ piecesById = <<>>
    /\ trayOrder = <<>>
    /\ placements = <<>>
    /\ selectedPieceId = NULL
    /\ isGenerating = FALSE
    /\ error = FALSE
    /\ boardFlash = "none"
    /\ isModalOpen = TRUE
    /\ gen = NoGen
    /\ zoomCells = NoZone
    /\ filterByZoom = FALSE
    /\ filterEdgesOnly = FALSE
    /\ resetConfirmOpen = FALSE

\* Mutant of placedCount: every piece of the catalog is counted.
placedCount_countsAll == Len(piecesById)

\* placedCount: the number of pieces with placed set.
placedCount == Cardinality({ k \in 1..Len(piecesById) : piecesById[k].placed })

\* totalCount = grid?.count ?? 0
totalCount == IF grid = NoGrid THEN 0 ELSE grid.count

\* The modal overlay covers the page: the controls of the page receive
\* pointer events only while the modal is closed.
PageActive == ~isModalOpen

\* ------------------------------------------------------------------------
\* Modal: piece count, rotation option, "Valider et charger"
\* ------------------------------------------------------------------------

\* "Choisir un autre puzzle"
OpenModal ==
    /\ PageActive
    /\ ~isGenerating
    /\ isModalOpen' = TRUE
    /\ UNCHANGED <<pieceCount, rotationEnabled, loadedImage, grid, piecesById, trayOrder,
                   placements, selectedPieceId, isGenerating, error, boardFlash, gen>>
    /\ FilterEffects
    /\ UNCHANGED resetConfirmOpen

\* The piece-count selector of the modal.
SetPieceCount(n) ==
    /\ isModalOpen
    /\ ~isGenerating
    /\ pieceCount' = n
    /\ UNCHANGED <<rotationEnabled, loadedImage, grid, piecesById, trayOrder,
                   placements, selectedPieceId, isGenerating, error, boardFlash,
                   isModalOpen, gen>>
    /\ FilterEffects
    /\ UNCHANGED resetConfirmOpen

\* loadPuzzleFromModal() up to `await generatePieces`, img being the image
\* analysed in the modal.
LoadStart(img) ==
    /\ isModalOpen
    /\ ~isGenerating
    /\ \E rnd \in Rounding :
       LET q == estimateQualityForCount(img[1], img[2], pieceCount, rnd) IN
       IF ~q.ok /\ pieceCount # 1000
       THEN /\ error' = FALSE
            /\ UNCHANGED <<pieceCount, rotationEnabled, loadedImage, grid, piecesById,
                           trayOrder, placements, selectedPieceId, isGenerating,
                           boardFlash, isModalOpen, gen>>
            /\ FilterEffects
            /\ UNCHANGED resetConfirmOpen
       ELSE /\ error' = FALSE
            /\ isModalOpen' = FALSE
            /\ isGenerating' = TRUE
            /\ selectedPieceId' = NULL
            /\ boardFlash' = "none"
            \* resetPuzzleState()
            /\ piecesById' = <<>>
            /\ trayOrder' = <<>>
            /\ placements' = <<>>
            /\ loadedImage' = img
            /\ grid' = q.grid
            /\ gen' = [kind |-> "load", grid |-> q.grid, randomRotation |-> rotationEnabled,
                          done |-> 0]
            /\ zoomCells' = NoZone
            /\ filterByZoom' = FALSE
            /\ UNCHANGED resetConfirmOpen
            /\ filterEdgesOnly' = FALSE
            /\ UNCHANGED <<pieceCount, rotationEnabled>>

\* ------------------------------------------------------------------------
\* Restart and cosmetic regeneration
\* ------------------------------------------------------------------------

\* "Réinitialiser" and its confirmation: restartSamePuzzle() up to the await.
RestartStart ==
    /\ PageActive
    /\ ~isGenerating
    /\ IF loadedImage = NoImage
       THEN /\ isModalOpen' = TRUE
            /\ UNCHANGED <<pieceCount, rotationEnabled, loadedImage, grid, piecesById,
                           trayOrder, placements, selectedPieceId, isGenerating, error,
                           boardFlash, gen>>
            /\ FilterEffects
            /\ UNCHANGED resetConfirmOpen
       ELSE \E rnd \in Rounding :
            LET g == findBestGrid(pieceCount, loadedImage[1], loadedImage[2], rnd) IN
            /\ error' = FALSE
            /\ isGenerating' = TRUE
            /\ grid' = g
            /\ gen' = [kind |-> "restart", grid |-> g, randomRotation |-> rotationEnabled,
                          done |-> 0]
            /\ selectedPieceId' = NULL
            /\ zoomCells' = NoZone
            /\ filterByZoom' = FALSE
            /\ UNCHANGED resetConfirmOpen
            /\ filterEdgesOnly' = edgeFilterEffect(filterEdgesOnly, trayOrder, piecesById,
                                                   placements, rotationEnabled, g, NoZone, FALSE)
            /\ UNCHANGED <<pieceCount, rotationEnabled, loadedImage, piecesById, trayOrder,
                           placements, boardFlash, isModalOpen>>

\* An outline control of the settings panel: regeneratePieceImages(next) up
\* to the await.  puzzleSeed is set together with loadedImage, so the guard
\* on puzzleSeed is the guard on loadedImage.
RegenStart ==
    /\ PageActive
    /\ ~isGenerating
    /\ grid # NoGrid
    /\ loadedImage # NoImage
    /\ isGenerating' = TRUE
    /\ gen' = [kind |-> "regen", grid |-> grid, randomRotation |-> FALSE, done |-> 0]
    /\ UNCHANGED <<pieceCount, rotationEnabled, loadedImage, grid, piecesById, trayOrder,
                   placements, selectedPieceId, error, boardFlash, isModalOpen>>
    /\ FilterEffects
    /\ UNCHANGED resetConfirmOpen

\* Mutant of GenStep: each piece is committed to the catalog as soon as it
\* is generated.
GenStep_commitsEach ==
    /\ gen.kind # "none"
    /\ gen.done < gen.grid.rows * gen.grid.cols
    /\ gen' = [gen EXCEPT !.done = @ + 1]
    /\ piecesById' = IF gen.kind = "load"
                     THEN Append(piecesById,
                                 [id |-> gen.done, row |-> gen.done \div gen.grid.cols,
                                  col |-> gen.done % gen.grid.cols, rotation |-> 0,
                                  placed |-> FALSE])
                     ELSE piecesById
    /\ UNCHANGED <<pieceCount, rotationEnabled, loadedImage, grid, trayOrder,
                   placements, selectedPieceId, isGenerating, error, boardFlash, isModalOpen>>
    /\ FilterEffects
    /\ UNCHANGED resetConfirmOpen

\* One iteration of the loop of generatePieces: a piece is pushed to the
\* local array `pieces`, nothing of the session is written.  The loop hands
\* control back to the event loop between two pieces (setTimeout 0), so
\* user events interleave with the iterations.
GenStep ==
    /\ gen.kind # "none"
    /\ gen.done < gen.grid.rows * gen.grid.cols
    /\ gen' = [gen EXCEPT !.done = @ + 1]
    /\ UNCHANGED <<pieceCount, rotationEnabled, loadedImage, grid, piecesById, trayOrder,
                   placements, selectedPieceId, isGenerating, error, boardFlash, isModalOpen>>
    /\ FilterEffects
    /\ UNCHANGED resetConfirmOpen

\* generatePieces resolves: the rest of the async handler that awaited it.
GenComplete ==
    /\ gen.kind # "none"
    /\ gen.done = gen.grid.rows * gen.grid.cols
    /\ \E generated \in generatePieces(gen.grid, gen.randomRotation) :
         IF gen.kind = "regen"
         THEN /\ piecesById' = regenerateMerge(piecesById, generated)
              /\ UNCHANGED <<trayOrder, placements>>
         ELSE /\ piecesById' = generated
              /\ trayOrder' \in shuffleInPlace(IdsOf(generated))
              /\ placements' = NullArray(gen.grid.count)
    /\ isGenerating' = FALSE
    /\ gen' = NoGen
    /\ selectedPieceId' = selectionReleaseEffect(selectedPieceId, piecesById', placements', rotationEnabled, grid)
    /\ UNCHANGED <<pieceCount, rotationEnabled, loadedImage, grid, error, boardFlash, isModalOpen>>
    /\ FilterEffects
    /\ UNCHANGED resetConfirmOpen

\* generatePieces rejects (no 2d context, a canvas call that throws on some
\* tile): the catch and finally blocks of the caller.
GenFail ==
    /\ gen.kind # "none"
    /\ IF gen.kind = "load"
       THEN error' = TRUE /\ isModalOpen' = TRUE
       ELSE UNCHANGED <<error, isModalOpen>>
    /\ isGenerating' = FALSE
    /\ gen' = NoGen
    /\ UNCHANGED <<pieceCount, rotationEnabled, loadedImage, grid, piecesById, trayOrder,
                   placements, selectedPieceId, boardFlash>>
    /\ FilterEffects
    /\ UNCHANGED resetConfirmOpen

\* ------------------------------------------------------------------------
\* Play
\* ------------------------------------------------------------------------

\* The memo trayCandidates of the current state.
trayCandidates ==
    trayCandidatesOf(trayOrder, piecesById, placements, rotationEnabled, grid,
                     zoomCells, filterByZoom, filterEdgesOnly)

\* trayCandidates.ids.slice(0, 96), for puzzles of at most 96 pieces.
trayVisibleIds == trayCandidates.ids

edgePiecesAvailable == trayCandidates.edgesAvailable

\* The cells of the view: the whole grid, or the zone the board is zoomed
\* on.
ViewCells ==
    IF grid = NoGrid THEN {}
    ELSE { idx \in 0..(grid.count - 1) :
             zoomCells = NoZone
             \/ InZone([row |-> idx \div grid.cols, col |-> idx % grid.cols], zoomCells) }

\* The ids the board renders as placed pieces: placedPieces.
placedPieces ==
    { At(placements, idx) : idx \in ViewCells } \ {NULL, UNDEF}

\* Click on a piece of the tray.
TrayClick(id) ==
    /\ PageActive
    /\ \E k \in 1..Len(trayVisibleIds) : trayVisibleIds[k] = id
    /\ selectedPieceId' =
         zoneSelectionEffect(
             selectionReleaseEffect(id, piecesById, placements, rotationEnabled, grid),
             piecesById, filterByZoom, zoomCells)
    /\ UNCHANGED <<pieceCount, rotationEnabled, loadedImage, grid, piecesById, trayOrder,
                   placements, isGenerating, error, boardFlash, isModalOpen, gen>>
    /\ FilterEffects
    /\ UNCHANGED resetConfirmOpen

\* Mutant of PlacedPieceClick: the click takes the piece off the board
\* before selecting it.
PlacedPieceClick_unplaces(id) ==
    /\ PageActive
    /\ id \in placedPieces
    /\ HasPiece(piecesById, id)
    /\ LET r == unplacePiece(piecesById, placements, trayOrder, id) IN
         /\ piecesById' = r.piecesById
         /\ placements' = r.placements
         /\ trayOrder' = r.trayOrder
    /\ selectedPieceId' = id
    /\ UNCHANGED <<pieceCount, rotationEnabled, loadedImage, grid, isGenerating, error,
                   boardFlash, isModalOpen, gen>>
    /\ FilterEffects
    /\ UNCHANGED resetConfirmOpen

\* Click on a piece rendered on the board.
PlacedPieceClick(id) ==
    /\ PageActive
    /\ id \in placedPieces
    /\ HasPiece(piecesById, id)
    /\ LET locked == isPieceCorrect(piecesById[id + 1], placements, rotationEnabled) IN
       selectedPieceId' =
           IF locked THEN selectedPieceId
           ELSE zoneSelectionEffect(
                    selectionReleaseEffect(id, piecesById, placements, rotationEnabled, grid),
                    piecesById, filterByZoom, zoomCells)
    /\ UNCHANGED <<pieceCount, rotationEnabled, loadedImage, grid, piecesById, trayOrder,
                   placements, isGenerating, error, boardFlash, isModalOpen, gen>>
    /\ FilterEffects
    /\ UNCHANGED resetConfirmOpen

\* Mutant of isCorrectCell: any cell is accepted.
isCorrectCell_any(piece, cellIdx) == TRUE

\* const isCorrectCell = piece.id === cellIdx
isCorrectCell(piece, cellIdx) == piece.id = cellIdx

\* Mutant of rotationOk: the orientation is never checked.
rotationOk_always(piece, rotEnabled) == TRUE

\* const rotationOk = !rotationEnabled || piece.rotation === 0
rotationOk(piece, rotEnabled) == ~rotEnabled \/ piece.rotation = 0

\* Mutant of placementFailure: the failure also drops the selection.
placementFailure_deselects(same) ==
    [same EXCEPT !.boardFlash = "bad", !.selectedPieceId = NULL]

\* The last statement of tryPlaceSelectedAtCell: flash("bad"), nothing else.
placementFailure(same) == [same EXCEPT !.boardFlash = "bad"]

\* tryPlaceSelectedAtCell(cellIdx): the next values of the state it writes.
tryPlaceSelectedAtCell(cellIdx) ==
    LET same == [piecesById |-> piecesById, placements |-> placements, trayOrder |-> trayOrder,
                 selectedPieceId |-> selectedPieceId, boardFlash |-> boardFlash]
    IN
    IF grid = NoGrid THEN same
    ELSE IF selectedPieceId = NULL THEN same
    ELSE IF ~HasPiece(piecesById, selectedPieceId) THEN same
    ELSE
      LET piece == piecesById[selectedPieceId + 1]
          correctCell == isCorrectCell(piece, cellIdx)
          isSameAlreadyThere == At(placements, cellIdx) = piece.id
          cellEmpty == At(placements, cellIdx) \in {NULL, UNDEF}
          rotOk == rotationOk(piece, rotationEnabled)
          placed == IF isSameAlreadyThere
                    THEN [piecesById |-> piecesById, placements |-> placements, trayOrder |-> trayOrder]
                    ELSE placePiece(piecesById, placements, trayOrder, piece.id, cellIdx)
      IN
      IF correctCell /\ (cellEmpty \/ isSameAlreadyThere)
      THEN IF rotationEnabled /\ ~rotOk
           THEN [piecesById |-> placed.piecesById, placements |-> placed.placements,
                 trayOrder |-> placed.trayOrder,
                 selectedPieceId |-> selectedPieceId, boardFlash |-> "warn"]
           ELSE [piecesById |-> placed.piecesById, placements |-> placed.placements,
                 trayOrder |-> placed.trayOrder,
                 selectedPieceId |-> NULL, boardFlash |-> "good"]
      ELSE placementFailure(same)

\* Click on the board at cell idx (cellAtPoint gives a cell of the grid).
BoardClick(idx) ==
    /\ PageActive
    /\ grid # NoGrid
    /\ idx \in ViewCells
    /\ IF selectedPieceId = NULL
       THEN LET pid == At(placements, idx) IN
            /\ selectedPieceId' =
                 IF pid \notin {NULL, UNDEF} /\ HasPiece(piecesById, pid)
                    /\ ~isPieceCorrect(piecesById[pid + 1], placements, rotationEnabled)
                 THEN zoneSelectionEffect(
                          selectionReleaseEffect(pid, piecesById, placements,
                                                 rotationEnabled, grid),
                          piecesById, filterByZoom, zoomCells)
                 ELSE selectedPieceId
            /\ UNCHANGED <<piecesById, placements, trayOrder, boardFlash>>
       ELSE LET r == tryPlaceSelectedAtCell(idx) IN
            /\ piecesById' = r.piecesById
            /\ placements' = r.placements
            /\ trayOrder' = r.trayOrder
            /\ boardFlash' = r.boardFlash
            /\ selectedPieceId' = selectionReleaseEffect(r.selectedPieceId, r.piecesById,
                                                         r.placements, rotationEnabled, grid)
    /\ UNCHANGED <<pieceCount, rotationEnabled, loadedImage, grid, isGenerating, error,
                   isModalOpen, gen>>
    /\ FilterEffects
    /\ UNCHANGED resetConfirmOpen

\* Mutant of KeyR: the handler does not test rotationEnabled.
KeyR_ignoresSetting ==
    IF selectedPieceId = NULL \/ ~HasPiece(piecesById, selectedPieceId)
    THEN UNCHANGED vars
    ELSE /\ piecesById' = setPieceRotation(piecesById, selectedPieceId,
                                           rotate90(piecesById[selectedPieceId + 1].rotation))
         /\ selectedPieceId' = selectionReleaseEffect(selectedPieceId, piecesById', placements,
                                                      rotationEnabled, grid)
         /\ UNCHANGED <<pieceCount, rotationEnabled, loadedImage, grid, trayOrder, placements,
                        isGenerating, error, boardFlash, isModalOpen, gen>>
         /\ FilterEffects
         /\ UNCHANGED resetConfirmOpen

\* Key R: onKeyDown (a window listener, not covered by the modal).  The
\* early returns of the handler leave the state as it is.
KeyR ==
    IF ~rotationEnabled \/ selectedPieceId = NULL \/ ~HasPiece(piecesById, selectedPieceId)
    THEN UNCHANGED vars
    ELSE /\ piecesById' = setPieceRotation(piecesById, selectedPieceId,
                                           rotate90(piecesById[selectedPieceId + 1].rotation))
         /\ selectedPieceId' = selectionReleaseEffect(selectedPieceId, piecesById', placements,
                                                      rotationEnabled, grid)
         /\ UNCHANGED <<pieceCount, rotationEnabled, loadedImage, grid, trayOrder, placements,
                        isGenerating, error, boardFlash, isModalOpen, gen>>
         /\ FilterEffects
         /\ UNCHANGED resetConfirmOpen

\* The rotate button shown on a piece that sits on its own cell in a wrong
\* orientation (showSnapRotate).
PieceRotateBtn(id) ==
    /\ PageActive
    /\ rotationEnabled
    /\ HasPiece(piecesById, id)
    /\ piecesById[id + 1].rotation # 0
    /\ At(placements, id) = id
    /\ id \in placedPieces
    /\ piecesById' = rotatePiece90(piecesById, id)
    /\ selectedPieceId' = selectionReleaseEffect(selectedPieceId, piecesById', placements,
                                                 rotationEnabled, grid)
    /\ UNCHANGED <<pieceCount, rotationEnabled, loadedImage, grid, trayOrder, placements,
                   isGenerating, error, boardFlash, isModalOpen, gen>>
    /\ FilterEffects
    /\ UNCHANGED resetConfirmOpen

\* The rotate button of the preview panel: rotatePiece90(previewPieceId).
\* The preview shows the piece of the last click on a piece, and the effect
\* on [isPiecePreviewOpen, placements, piecesById, previewPieceId,
\* rotationEnabled] closes it as soon as that piece is correct: the button
\* is there for a piece that is not correct.
PreviewRotateBtn(id) ==
    /\ PageActive
    /\ rotationEnabled
    /\ ~isGenerating
    /\ HasPiece(piecesById, id)
    /\ ~isPieceCorrect(piecesById[id + 1], placements, rotationEnabled)
    /\ piecesById' = rotatePiece90(piecesById, id)
    /\ selectedPieceId' = selectionReleaseEffect(selectedPieceId, piecesById', placements,
                                                 rotationEnabled, grid)
    /\ UNCHANGED <<pieceCount, rotationEnabled, loadedImage, grid, trayOrder, placements,
                   isGenerating, error, boardFlash, isModalOpen, gen>>
    /\ FilterEffects
    /\ UNCHANGED resetConfirmOpen

\* "Retirer": unplacePiece(selectedPieceId), then flash("bad").
Unplace ==
    /\ PageActive
    /\ ~isGenerating
    /\ selectedPieceId # NULL
    /\ HasPiece(piecesById, selectedPieceId)
    /\ piecesById[selectedPieceId + 1].placed
    /\ LET r == unplacePiece(piecesById, placements, trayOrder, selectedPieceId) IN
       /\ piecesById' = r.piecesById
       /\ placements' = r.placements
       /\ trayOrder' = r.trayOrder
       /\ selectedPieceId' = selectionReleaseEffect(selectedPieceId, r.piecesById, r.placements,
                                                    rotationEnabled, grid)
    /\ boardFlash' = "bad"
    /\ UNCHANGED <<pieceCount, rotationEnabled, loadedImage, grid, isGenerating, error,
                   isModalOpen, gen>>
    /\ FilterEffects
    /\ UNCHANGED resetConfirmOpen

\* "Résoudre": solvePuzzle().
SolveAll ==
    /\ PageActive
    /\ grid # NoGrid
    /\ ~isGenerating
    /\ LET r == solvePuzzle(piecesById, grid) IN
       /\ piecesById' = r.piecesById
       /\ placements' = r.placements
       /\ trayOrder' = r.trayOrder
    /\ selectedPieceId' = NULL
    /\ boardFlash' = "good"
    /\ UNCHANGED <<pieceCount, rotationEnabled, loadedImage, grid, isGenerating, error,
                   isModalOpen, gen>>
    /\ FilterEffects
    /\ UNCHANGED resetConfirmOpen

\* "Mélanger": shuffleInPlace on a copy of trayOrder.
Reshuffle ==
    /\ PageActive
    /\ Len(piecesById) # 0
    /\ ~isGenerating
    /\ trayOrder' \in shuffleInPlace(trayOrder)
    /\ UNCHANGED <<pieceCount, rotationEnabled, loadedImage, grid, piecesById, placements,
                   selectedPieceId, isGenerating, error, boardFlash, isModalOpen, gen>>
    /\ FilterEffects
    /\ UNCHANGED resetConfirmOpen

\* The rotation checkbox (modal or settings panel), then the effect on
\* [rotationEnabled].
ToggleRotation ==
    /\ ~isGenerating
    /\ isModalOpen \/ grid # NoGrid
    /\ rotationEnabled' = ~rotationEnabled
    /\ piecesById' = rotationDisabledEffect(piecesById, rotationEnabled')
    /\ selectedPieceId' = selectionReleaseEffect(selectedPieceId, piecesById', placements,
                                                 rotationEnabled', grid)
    /\ UNCHANGED <<pieceCount, loadedImage, grid, trayOrder, placements, isGenerating, error,
                   boardFlash, isModalOpen, gen>>
    /\ FilterEffects
    /\ UNCHANGED resetConfirmOpen

\* ------------------------------------------------------------------------
\* Specification
\* ------------------------------------------------------------------------

Next ==
    \/ OpenModal
    \/ \E n \in PIECE_COUNTS : SetPieceCount(n)
    \/ \E img \in Images : LoadStart(img)
    \/ RestartStart
    \/ RegenStart
    \/ GenStep
    \/ GenComplete
    \/ GenFail
    \/ \E id \in 0..(MaxCount - 1) : TrayClick(id)
    \/ \E id \in 0..(MaxCount - 1) : PlacedPieceClick(id)
    \/ \E idx \in 0..(MaxCount - 1) : BoardClick(idx)
    \/ KeyR
    \/ \E id \in 0..(MaxCount - 1) : PieceRotateBtn(id)
    \/ \E id \in 0..(MaxCount - 1) : PreviewRotateBtn(id)
    \/ Unplace
    \/ SolveAll
    \/ Reshuffle
    \/ ToggleRotation

Spec == Init /\ [][Next]_vars

\* ------------------------------------------------------------------------
\* unplacePiece called on any piece
\* ------------------------------------------------------------------------

\* unplacePiece(id) for a piece of the catalog, in the tray or on the board,
\* with the effects that follow the three updaters.
UnplaceCall(id) ==
    /\ PageActive
    /\ ~isGenerating
    /\ HasPiece(piecesById, id)
    /\ LET r == unplacePiece(piecesById, placements, trayOrder, id) IN
       /\ piecesById' = r.piecesById
       /\ placements' = r.placements
       /\ trayOrder' = r.trayOrder
       /\ selectedPieceId' = selectionReleaseEffect(selectedPieceId, r.piecesById, r.placements,
                                                    rotationEnabled, grid)
    /\ UNCHANGED <<pieceCount, rotationEnabled, loadedImage, grid, isGenerating, error,
                   boardFlash, isModalOpen, gen>>
    /\ FilterEffects
    /\ UNCHANGED resetConfirmOpen

\* The session, with unplacePiece open to its callers.
UnplaceNext ==
    \/ Next
    \/ \E id \in 0..(MaxCount - 1) : UnplaceCall(id)

UnplaceSpec == Init /\ [][UnplaceNext]_vars

\* ------------------------------------------------------------------------
\* The session controls called with stale references
\* ------------------------------------------------------------------------

\* The ids and cell indexes a stale reference can hold: null or below the
\* range, those of the largest catalog, and one past it.
StaleRefs == (-1)..MaxCount

\* setSelectedPieceId(id), with the effects on the selection.
SelectCall(id) ==
    /\ PageActive
    /\ selectedPieceId' =
         zoneSelectionEffect(
             selectionReleaseEffect(id, piecesById, placements, rotationEnabled, grid),
             piecesById, filterByZoom, zoomCells)
    /\ UNCHANGED <<pieceCount, rotationEnabled, loadedImage, grid, piecesById, trayOrder,
                   placements, isGenerating, error, boardFlash, isModalOpen, gen>>
    /\ FilterEffects
    /\ UNCHANGED resetConfirmOpen

\* rotatePiece90(id).
RotateCall(id) ==
    /\ PageActive
    /\ piecesById' = rotatePiece90(piecesById, id)
    /\ selectedPieceId' = selectionReleaseEffect(selectedPieceId, piecesById', placements,
                                                 rotationEnabled, grid)
    /\ UNCHANGED <<pieceCount, rotationEnabled, loadedImage, grid, trayOrder, placements,
                   isGenerating, error, boardFlash, isModalOpen, gen>>
    /\ FilterEffects
    /\ UNCHANGED resetConfirmOpen

\* tryPlaceSelectedAtCell(cellIdx).
AttemptPlaceCall(cellIdx) ==
    /\ PageActive
    /\ LET r == tryPlaceSelectedAtCell(cellIdx) IN
       /\ piecesById' = r.piecesById
       /\ placements' = r.placements
       /\ trayOrder' = r.trayOrder
       /\ boardFlash' = r.boardFlash
       /\ selectedPieceId' = selectionReleaseEffect(r.selectedPieceId, r.piecesById,
                                                    r.placements, rotationEnabled, grid)
    /\ UNCHANGED <<pieceCount, rotationEnabled, loadedImage, grid, isGenerating, error,
                   isModalOpen, gen>>
    /\ FilterEffects
    /\ UNCHANGED resetConfirmOpen

\* A puzzle as loadPuzzleFromModal leaves it once its generation has
\* completed: every piece in the tray, in a shuffled order.
UsageInit ==
    /\ pieceCount \in PIECE_COUNTS
    /\ loadedImage \in Images
    /\ rotationEnabled \in BOOLEAN
    /\ \E rnd \in Rounding :
         LET q == estimateQualityForCount(loadedImage[1], loadedImage[2], pieceCount, rnd) IN
         /\ q.ok
         /\ grid = q.grid
    /\ piecesById \in generatePieces(grid, rotationEnabled)
    /\ trayOrder \in shuffleInPlace(IdsOf(piecesById))
    /\ placements = NullArray(grid.count)
    /\ selectedPieceId = NULL
    /\ isGenerating = FALSE
    /\ error = FALSE
    /\ boardFlash = "none"
    /\ isModalOpen = FALSE
    /\ gen = NoGen
    /\ zoomCells = NoZone
    /\ filterByZoom = FALSE
    /\ filterEdgesOnly = FALSE
    /\ resetConfirmOpen = FALSE

\* The play of a loaded puzzle, with the session controls open to callers
\* that hold stale ids and cell indexes.
UsageNext ==
    \/ \E id \in 0..(MaxCount - 1) : TrayClick(id)
    \/ \E id \in 0..(MaxCount - 1) : PlacedPieceClick(id)
    \/ \E idx \in 0..(MaxCount - 1) : BoardClick(idx)
    \/ KeyR
    \/ \E id \in 0..(MaxCount - 1) : PieceRotateBtn(id)
    \/ SolveAll
    \/ Reshuffle
    \/ ToggleRotation
    \/ \E id \in StaleRefs : SelectCall(id)
    \/ \E id \in StaleRefs : RotateCall(id)
    \/ \E cellIdx \in StaleRefs : AttemptPlaceCall(cellIdx)

UsageSpec == UsageInit /\ [][UsageNext]_vars

\* ------------------------------------------------------------------------
\* Generation runs started from the buttons, by pointer or by keyboard
\*
\* A button is activated by a click or, once it has the focus, by Enter or
\* Space.  The overlay of a dialog covers the page for the pointer only:
\* nothing in App takes the buttons of the page out of the tab order while
\* a dialog is shown, so what guards an activation is the `disabled`
\* attribute of the button and whether the button is rendered.  Here gen is
\* the sequence of the generatePieces calls in flight, each with what its
\* caller closed over; a call hands control back to the event loop every
\* YieldEvery pieces, so activations interleave with the calls in flight.
\* ------------------------------------------------------------------------

MaxRuns == 2

\* Splice of the k-th call in flight.
RunsWithout(k) == SubSeq(gen, 1, k - 1) \o SubSeq(gen, k + 1, Len(gen))

RunInit ==
    /\ pieceCount \in PIECE_COUNTS
    /\ rotationEnabled = TRUE
    /\ loadedImage = NoImage
    /\ grid = NoGrid
    /\ piecesById = <<>>
    /\ trayOrder = <<>>
    /\ placements = <<>>
    /\ selectedPieceId = NULL
    /\ isGenerating = FALSE
    /\ error = FALSE
    /\ boardFlash = "none"
    /\ isModalOpen = TRUE
    /\ gen = <<>>
    /\ zoomCells = NoZone
    /\ filterByZoom = FALSE
    /\ filterEdgesOnly = FALSE
    /\ resetConfirmOpen = FALSE

\* "Choisir un autre puzzle", disabled={isGenerating}.
RunOpenModal ==
    /\ ~isGenerating
    /\ isModalOpen' = TRUE
    /\ UNCHANGED <<pieceCount, rotationEnabled, loadedImage, grid, piecesById, trayOrder,
                   placements, selectedPieceId, isGenerating, error, boardFlash, gen,
                   resetConfirmOpen>>
    /\ FilterEffects

\* "Valider et charger" of the modal, disabled={isGenerating || ...}:
\* loadPuzzleFromModal() up to `await generatePieces`.
RunLoad(img) ==
    /\ isModalOpen
    /\ ~isGenerating
    /\ Len(gen) < MaxRuns
    /\ UNCHANGED resetConfirmOpen
    /\ \E rnd \in Rounding :
       LET q == estimateQualityForCount(img[1], img[2], pieceCount, rnd) IN
       IF ~q.ok /\ pieceCount # 1000
       THEN /\ error' = FALSE
            /\ UNCHANGED <<pieceCount, rotationEnabled, loadedImage, grid, piecesById,
                           trayOrder, placements, selectedPieceId, isGenerating,
                           boardFlash, isModalOpen, gen>>
            /\ FilterEffects
       ELSE /\ error' = FALSE
            /\ isModalOpen' = FALSE
            /\ isGenerating' = TRUE
            /\ selectedPieceId' = NULL
            /\ boardFlash' = "none"
            /\ piecesById' = <<>>
            /\ trayOrder' = <<>>
            /\ placements' = <<>>
            /\ loadedImage' = img
            /\ grid' = q.grid
            /\ gen' = Append(gen, [kind |-> "load", grid |-> q.grid,
                                   randomRotation |-> rotationEnabled])
            /\ zoomCells' = NoZone
            /\ filterByZoom' = FALSE
            /\ filterEdgesOnly' = FALSE
            /\ UNCHANGED <<pieceCount, rotationEnabled>>

\* "Réinitialiser" of the top bar, disabled={isGenerating}: the
\* confirmation dialog is shown.
ResetOpen ==
    /\ ~isGenerating
    /\ resetConfirmOpen' = TRUE
    /\ UNCHANGED <<pieceCount, rotationEnabled, loadedImage, grid, piecesById, trayOrder,
                   placements, selectedPieceId, isGenerating, error, boardFlash,
                   isModalOpen, gen>>
    /\ FilterEffects

\* "Annuler", or a click on the overlay of the confirmation dialog.
ResetCancel ==
    /\ resetConfirmOpen
    /\ resetConfirmOpen' = FALSE
    /\ UNCHANGED <<pieceCount, rotationEnabled, loadedImage, grid, piecesById, trayOrder,
                   placements, selectedPieceId, isGenerating, error, boardFlash,
                   isModalOpen, gen>>
    /\ FilterEffects

\* "Réinitialiser" of the confirmation dialog, a button without `disabled`:
\* the dialog is closed, then restartSamePuzzle() up to the await.
ResetConfirm ==
    /\ resetConfirmOpen
    /\ Len(gen) < MaxRuns
    /\ resetConfirmOpen' = FALSE
    /\ IF loadedImage = NoImage
       THEN /\ isModalOpen' = TRUE
            /\ UNCHANGED <<pieceCount, rotationEnabled, loadedImage, grid, piecesById,
                           trayOrder, placements, selectedPieceId, isGenerating, error,
                           boardFlash, gen>>
            /\ FilterEffects
       ELSE \E rnd \in Rounding :
            LET g == findBestGrid(pieceCount, loadedImage[1], loadedImage[2], rnd) IN
            /\ error' = FALSE
            /\ isGenerating' = TRUE
            /\ grid' = g
            /\ gen' = Append(gen, [kind |-> "restart", grid |-> g,
                                   randomRotation |-> rotationEnabled])
            /\ selectedPieceId' = NULL
            /\ zoomCells' = NoZone
            /\ filterByZoom' = FALSE
            /\ filterEdgesOnly' = edgeFilterEffect(filterEdgesOnly, trayOrder, piecesById,
                                                   placements, rotationEnabled, g, NoZone, FALSE)
            /\ UNCHANGED <<pieceCount, rotationEnabled, loadedImage, piecesById, trayOrder,
                           placements, boardFlash, isModalOpen>>

\* An outline control of the settings panel, disabled={isGenerating || !grid}:
\* regeneratePieceImages(next) up to the await.
RunRegen ==
    /\ ~isGenerating
    /\ grid # NoGrid
    /\ loadedImage # NoImage
    /\ Len(gen) < MaxRuns
    /\ isGenerating' = TRUE
    /\ gen' = Append(gen, [kind |-> "regen", grid |-> grid, randomRotation |-> FALSE])
    /\ UNCHANGED <<pieceCount, rotationEnabled, loadedImage, grid, piecesById, trayOrder,
                   placements, selectedPieceId, error, boardFlash, isModalOpen,
                   resetConfirmOpen>>
    /\ FilterEffects

\* The k-th call in flight resolves: the rest of the handler that awaited
\* it, its finally block included.
RunResolve(k) ==
    /\ k \in 1..Len(gen)
    /\ \E generated \in generatePieces(gen[k].grid, gen[k].randomRotation) :
         IF gen[k].kind = "regen"
         THEN /\ piecesById' = regenerateMerge(piecesById, generated)
              /\ UNCHANGED <<trayOrder, placements>>
         ELSE /\ piecesById' = generated
              /\ trayOrder' \in shuffleInPlace(IdsOf(generated))
              /\ placements' = NullArray(gen[k].grid.count)
    /\ isGenerating' = FALSE
    /\ gen' = RunsWithout(k)
    /\ selectedPieceId' = selectionReleaseEffect(selectedPieceId, piecesById', placements', rotationEnabled, grid)
    /\ UNCHANGED <<pieceCount, rotationEnabled, loadedImage, grid, error, boardFlash,
                   isModalOpen, resetConfirmOpen>>
    /\ FilterEffects

\* The k-th call in flight rejects: the catch and finally blocks of its
\* caller.
RunReject(k) ==
    /\ k \in 1..Len(gen)
    /\ IF gen[k].kind = "load"
       THEN error' = TRUE /\ isModalOpen' = TRUE
       ELSE UNCHANGED <<error, isModalOpen>>
    /\ isGenerating' = FALSE
    /\ gen' = RunsWithout(k)
    /\ UNCHANGED <<pieceCount, rotationEnabled, loadedImage, grid, piecesById, trayOrder,
                   placements, selectedPieceId, boardFlash, resetConfirmOpen>>
    /\ FilterEffects

RunNext ==
    \/ RunOpenModal
    \/ \E img \in Images : RunLoad(img)
    \/ ResetOpen
    \/ ResetCancel
    \/ ResetConfirm
    \/ RunRegen
    \/ \E k \in 1..MaxRuns : RunResolve(k)
    \/ \E k \in 1..MaxRuns : RunReject(k)

RunSpec == RunInit /\ [][RunNext]_vars


\* ------------------------------------------------------------------------
\* The grid solver on its own: findBestGrid applied, as restartSamePuzzle
\* applies it, to the piece count and the image size of the state, for
\* every piece count up to MaxGridCount and every image of at most MaxSide
\* by MaxSide.
\* ------------------------------------------------------------------------

MaxGridCount == 50

MaxSide == 4

GridInit ==
    /\ pieceCount \in 1..MaxGridCount
    /\ loadedImage \in (1..MaxSide) \X (1..MaxSide)
    /\ rotationEnabled = TRUE
    /\ grid = NoGrid
    /\ piecesById = <<>>
    /\ trayOrder = <<>>
    /\ placements = <<>>
    /\ selectedPieceId = NULL
    /\ isGenerating = FALSE
    /\ error = FALSE
    /\ boardFlash = "none"
    /\ isModalOpen = FALSE
    /\ gen = NoGen
    /\ zoomCells = NoZone
    /\ filterByZoom = FALSE
    /\ filterEdgesOnly = FALSE
    /\ resetConfirmOpen = FALSE

\* const g = findBestGrid(pieceCount, imageAspect); setGrid(g)
SolveGrid ==
    /\ grid = NoGrid
    /\ \E rnd \in Rounding :
         grid' = findBestGrid(pieceCount, loadedImage[1], loadedImage[2], rnd)
    /\ UNCHANGED <<pieceCount, rotationEnabled, loadedImage, piecesById, trayOrder,
                   placements, selectedPieceId, isGenerating, error, boardFlash,
                   isModalOpen, gen>>
    /\ FilterEffects
    /\ UNCHANGED resetConfirmOpen

GridNext == SolveGrid

GridSpec == GridInit /\ [][GridNext]_vars

\* ------------------------------------------------------------------------
\* findBestGrid on arbitrary numbers
\* ------------------------------------------------------------------------

MaxInputCount == 4

MaxInputSide == 2

\* Math.abs(Math.log((cols / rows) / (w / h))) for integers of any sign
\* with h >= 1 and rows, cols not both 0: a finite score ("fin", the
\* fraction hi/lo as in Score), +Infinity ("inf") or NaN ("nan").
\*   cols / rows     is +-Infinity when rows = 0, +-0 when cols = 0;
\*   x / (w / h)     is NaN for 0/0, +-Infinity for x/0 and Infinity/y,
\*                   +-0 for 0/y;
\*   Math.log        is NaN below 0, -Infinity at +-0, +Infinity at
\*                   +Infinity.
ScoreOfNumbers(rows, cols, w, h) ==
    LET sgn(n) == IF n > 0 THEN 1 ELSE IF n < 0 THEN -1 ELSE 0
        abs(n) == IF n < 0 THEN -n ELSE n
        fin(num, den) ==
            IF num >= den THEN [kind |-> "fin", hi |-> num, lo |-> den, rows |-> rows]
            ELSE [kind |-> "fin", hi |-> den, lo |-> num, rows |-> rows]
        inf == [kind |-> "inf", hi |-> 1, lo |-> 1, rows |-> rows]
        nan == [kind |-> "nan", hi |-> 1, lo |-> 1, rows |-> rows]
    IN  IF rows = 0
        THEN \* cols / 0 = +-Infinity
             IF w = 0 THEN (IF cols > 0 THEN inf ELSE nan)
             ELSE IF sgn(cols) * sgn(w) > 0 THEN inf ELSE nan
        ELSE IF cols = 0
        THEN \* +-0 / rows = +-0
             IF w = 0 THEN nan ELSE inf
        ELSE IF w = 0
        THEN \* x / 0 = +-Infinity
             IF sgn(cols) * sgn(rows) > 0 THEN inf ELSE nan
        ELSE IF sgn(cols) * sgn(rows) * sgn(w) < 0 THEN nan
        ELSE fin(abs(cols) * h, abs(rows) * abs(w))

\* a < b for two such doubles.
NumberLess(a, b, rnd) ==
    IF a.kind = "nan" \/ b.kind = "nan" THEN FALSE
    ELSE IF a.kind = "inf" THEN FALSE
    ELSE IF b.kind = "inf" THEN TRUE
    ELSE ScoreLess(a, b, rnd)

RECURSIVE BestOfNumbers(_, _, _, _, _, _, _)
BestOfNumbers(ds, k, best, count, w, h, rnd) ==
    IF k > Len(ds) THEN best
    ELSE LET rows == ds[k]
             cols == count \div ds[k]
             score == ScoreOfNumbers(rows, cols, w, h)
             next == IF NumberLess(score, best.score, rnd)
                     THEN [rows |-> rows, cols |-> cols, score |-> score]
                     ELSE best
         IN BestOfNumbers(ds, k + 1, next, count, w, h, rnd)

\* findBestGrid(count, w / h) for integers count and w of any sign, h >= 1.
findBestGridOfNumbers(count, w, h, rnd) ==
    LET best == BestOfNumbers(divisors(count), 1,
                              [rows |-> 1, cols |-> count,
                               score |-> [kind |-> "inf", hi |-> 1, lo |-> 1, rows |-> 0]],
                              count, w, h, rnd)
    IN  IF NumberLess(ScoreOfNumbers(best.cols, best.rows, w, h),
                      ScoreOfNumbers(best.rows, best.cols, w, h), rnd)
        THEN [rows |-> best.cols, cols |-> best.rows, count |-> count]
        ELSE [rows |-> best.rows, cols |-> best.cols, count |-> count]

InputInit ==
    /\ pieceCount \in (-MaxInputCount)..MaxInputCount
    /\ loadedImage \in ((-MaxInputSide)..MaxInputSide) \X (1..MaxInputSide)
    /\ rotationEnabled = TRUE
    /\ grid = NoGrid
    /\ piecesById = <<>>
    /\ trayOrder = <<>>
    /\ placements = <<>>
    /\ selectedPieceId = NULL
    /\ isGenerating = FALSE
    /\ error = FALSE
    /\ boardFlash = "none"
    /\ isModalOpen = FALSE
    /\ gen = NoGen
    /\ zoomCells = NoZone
    /\ filterByZoom = FALSE
    /\ filterEdgesOnly = FALSE
    /\ resetConfirmOpen = FALSE

\* const g = findBestGrid(count, size.w / size.h)
SolveInput ==
    /\ grid = NoGrid
    /\ \E rnd \in Rounding :
         grid' = findBestGridOfNumbers(pieceCount, loadedImage[1], loadedImage[2], rnd)
    /\ UNCHANGED <<pieceCount, rotationEnabled, loadedImage, piecesById, trayOrder,
                   placements, selectedPieceId, isGenerating, error, boardFlash,
                   isModalOpen, gen>>
    /\ FilterEffects
    /\ UNCHANGED resetConfirmOpen

InputNext == SolveInput

InputSpec == InputInit /\ [][InputNext]_vars

\* ------------------------------------------------------------------------
\* Edge specs and piece contours (buildEdges, pieceEdges, buildJigsawPath)
\* ------------------------------------------------------------------------

MaxEdgeSide == 3

MaxStream == 3

\* The length of a tile side, in units that keep every position an integer.
TileLen == 20000

\* Math.random() returns one of 0, 1/4, 2/4, 3/4, written as quarters; the
\* ambient generator is a stream of MaxStream such values read cyclically.
RandomQuarters == 0..3

Streams == [0..(MaxStream - 1) -> RandomQuarters]

\* The k-th value Math.random() returns (k from 0).
RandomAt(s, k) == s[k % MaxStream]

\* The stream s after k values have been taken from it.
StreamAfter(s, k) == [i \in 0..(MaxStream - 1) |-> s[(i + k) % MaxStream]]

\* The seeds a puzzle can get.
Seeds == {1, 2}

clamp(n, min, max) ==
    LET m == IF max <= n THEN max ELSE n
    IN  IF min >= m THEN min ELSE m

\* One EdgeSpec drawn from the calls k .. k+3 of Math.random():
\* sign = r < 0.5 ? 1 : -1, widthF = rand(0.92, 1.06) in 1/10000,
\* neckF = rand(0.90, 1.12) in 1/10000, skewF = rand(-1, 1) in 1/100.
EdgeDraw(s, k) ==
    [sign |-> IF RandomAt(s, k) < 2 THEN 1 ELSE -1,
     widthF |-> 9200 + 350 * RandomAt(s, k + 1),
     neckF |-> 9000 + 550 * RandomAt(s, k + 2),
     skewF |-> -100 + 50 * RandomAt(s, k + 3)]

\* buildEdges(g) reading the stream s: vEdges[r][c], r < rows, c < cols - 1,
\* are drawn first, row by row, then hEdges[r][c], r < rows - 1, c < cols.
buildEdges(g, s) ==
    [vEdges |-> [r \in 0..(g.rows - 1) |-> [c \in 0..(g.cols - 2) |->
                    EdgeDraw(s, 4 * (r * (g.cols - 1) + c))]],
     hEdges |-> [r \in 0..(g.rows - 2) |-> [c \in 0..(g.cols - 1) |->
                    EdgeDraw(s, 4 * (g.rows * (g.cols - 1) + r * g.cols + c))]]]

flat == [sign |-> 0, widthF |-> 10000, neckF |-> 10000, skewF |-> 0]

\* Mutant of pieceEdges: the top edge of the second row is flat too.
pieceEdges_flatSecondRow(g, edges, r, c) ==
    [top |-> IF r <= 1 THEN flat
             ELSE [edges.hEdges[r - 1][c] EXCEPT !.sign = -edges.hEdges[r - 1][c].sign],
     bottom |-> IF r = g.rows - 1 THEN flat ELSE edges.hEdges[r][c],
     left |-> IF c = 0 THEN flat
              ELSE [edges.vEdges[r][c - 1] EXCEPT !.sign = -edges.vEdges[r][c - 1].sign],
     right |-> IF c = g.cols - 1 THEN flat ELSE edges.vEdges[r][c]]

pieceEdges(g, edges, r, c) ==
    [top |-> IF r = 0 THEN flat
             ELSE [edges.hEdges[r - 1][c] EXCEPT !.sign = -edges.hEdges[r - 1][c].sign],
     bottom |-> IF r = g.rows - 1 THEN flat ELSE edges.hEdges[r][c],
     left |-> IF c = 0 THEN flat
              ELSE [edges.vEdges[r][c - 1] EXCEPT !.sign = -edges.vEdges[r][c - 1].sign],
     right |-> IF c = g.cols - 1 THEN flat ELSE edges.vEdges[r][c]]

\* A straight side.
Straight == [isFlat |-> TRUE, disp |-> 0, skew |-> 0, widthF |-> 0, neckF |-> 0,
             tipAt |-> 0, baseAt |-> {}]

\* Mutant of hEdgeAbs: skewF is not mirrored on a side drawn backwards.
hEdgeAbs_noMirror(start, end, normal, spec) ==
    LET dir == IF end >= start THEN 1 ELSE -1
        L == IF end >= start THEN end - start ELSE start - end
        at(u) == start + dir * u
        skew == spec.skewF
        centerU == (L \div 2) + (L * 6 * clamp(skew, -100, 100)) \div 10000
        widthU == clamp(((L \div 100) * 42 * spec.widthF) \div 10000, (L * 34) \div 100, L \div 2)
        aU == clamp(centerU - widthU \div 2, (L * 14) \div 100, (L * 86) \div 100)
        dU == clamp(centerU + widthU \div 2, (L * 14) \div 100, (L * 86) \div 100)
    IN  IF spec.sign = 0 \/ L = 0 THEN Straight
        ELSE [isFlat |-> FALSE, disp |-> normal * spec.sign, skew |-> skew,
              widthF |-> spec.widthF, neckF |-> spec.neckF,
              tipAt |-> at(centerU), baseAt |-> {at(aU), at(dU)}]

\* The side hEdgeAbs(startX, endX, y, normalY, spec) draws, in the
\* coordinates of the tile: straight for sign 0; otherwise a tab whose tip is
\* at xAt(centerU), displaced by normalY * sign * amp (disp, in units of
\* amp), on a base from xAt(aU) to xAt(dU), with the skew it resolved.
hEdgeAbs(start, end, normal, spec) ==
    LET dir == IF end >= start THEN 1 ELSE -1
        L == IF end >= start THEN end - start ELSE start - end
        at(u) == start + dir * u
        skew == IF dir = 1 THEN spec.skewF ELSE -spec.skewF
        centerU == (L \div 2) + (L * 6 * clamp(skew, -100, 100)) \div 10000
        widthU == clamp(((L \div 100) * 42 * spec.widthF) \div 10000, (L * 34) \div 100, L \div 2)
        aU == clamp(centerU - widthU \div 2, (L * 14) \div 100, (L * 86) \div 100)
        dU == clamp(centerU + widthU \div 2, (L * 14) \div 100, (L * 86) \div 100)
    IN  IF spec.sign = 0 \/ L = 0 THEN Straight
        ELSE [isFlat |-> FALSE, disp |-> normal * spec.sign, skew |-> skew,
              widthF |-> spec.widthF, neckF |-> spec.neckF,
              tipAt |-> at(centerU), baseAt |-> {at(aU), at(dU)}]

\* vEdgeAbs(x, startY, endY, normalX, spec): the same along the y axis.
vEdgeAbs(start, end, normal, spec) ==
    LET dir == IF end >= start THEN 1 ELSE -1
        L == IF end >= start THEN end - start ELSE start - end
        at(u) == start + dir * u
        skew == IF dir = 1 THEN spec.skewF ELSE -spec.skewF
        centerU == (L \div 2) + (L * 6 * clamp(skew, -100, 100)) \div 10000
        widthU == clamp(((L \div 100) * 42 * spec.widthF) \div 10000, (L * 34) \div 100, L \div 2)
        aU == clamp(centerU - widthU \div 2, (L * 14) \div 100, (L * 86) \div 100)
        dU == clamp(centerU + widthU \div 2, (L * 14) \div 100, (L * 86) \div 100)
    IN  IF spec.sign = 0 \/ L = 0 THEN Straight
        ELSE [isFlat |-> FALSE, disp |-> normal * spec.sign, skew |-> skew,
              widthF |-> spec.widthF, neckF |-> spec.neckF,
              tipAt |-> at(centerU), baseAt |-> {at(aU), at(dU)}]

\* The four sides buildJigsawPath draws for the edges e of a piece: top
\* left to right, right top to bottom, bottom right to left, left bottom
\* to top.
buildJigsawPath(e) ==
    [top |-> hEdgeAbs(0, TileLen, -1, e.top),
     right |-> vEdgeAbs(0, TileLen, 1, e.right),
     bottom |-> hEdgeAbs(TileLen, 0, 1, e.bottom),
     left |-> vEdgeAbs(TileLen, 0, -1, e.left)]

Cells(g) == (0..(g.rows - 1)) \X (0..(g.cols - 1))

\* The call generatePieces(image, g, {seed, ...}) when Math.random() is at
\* the start of the stream s: the edges it builds and, for every piece
\* (r, c), the edges e and the path drawn.  opts.seed is not read.
generateShapes(g, seed, s) ==
    LET edges == buildEdges(g, s) IN
    [kind |-> "shapes", grid |-> g, seed |-> seed, random |-> s, edges |-> edges,
     e |-> [rc \in Cells(g) |-> pieceEdges(g, edges, rc[1], rc[2])],
     path |-> [rc \in Cells(g) |->
                  buildJigsawPath(pieceEdges(g, edges, rc[1], rc[2]))]]

EdgeInit ==
    /\ pieceCount = 1
    /\ loadedImage = NoImage
    /\ rotationEnabled = TRUE
    /\ grid \in { [rows |-> r, cols |-> c, count |-> r * c] :
                    r \in 1..MaxEdgeSide, c \in 1..MaxEdgeSide }
    /\ piecesById = <<>>
    /\ trayOrder = <<>>
    /\ placements = <<>>
    /\ selectedPieceId = NULL
    /\ isGenerating = FALSE
    /\ error = FALSE
    /\ boardFlash = "none"
    /\ isModalOpen = FALSE
    /\ gen = NoGen
    /\ zoomCells = NoZone
    /\ filterByZoom = FALSE
    /\ filterEdgesOnly = FALSE
    /\ resetConfirmOpen = FALSE

\* loadPuzzleFromModal: generatePieces with a fresh seed.
ShapesNew ==
    /\ gen = NoGen
    /\ \E seed \in Seeds, s \in Streams : gen' = generateShapes(grid, seed, s)
    /\ UNCHANGED <<pieceCount, rotationEnabled, loadedImage, grid, piecesById, trayOrder,
                   placements, selectedPieceId, isGenerating, error, boardFlash,
                   isModalOpen>>
    /\ FilterEffects
    /\ UNCHANGED resetConfirmOpen

\* restartSamePuzzle, regeneratePieceImages: generatePieces again with
\* seed: puzzleSeed, the seed of the current puzzle.  Math.random() has
\* moved on by the values the previous generation, the rotations and the
\* shuffle took.
ShapesAgain ==
    /\ gen # NoGen
    /\ \E k \in 1..MaxStream :
         gen' = generateShapes(grid, gen.seed, StreamAfter(gen.random, k))
    /\ UNCHANGED <<pieceCount, rotationEnabled, loadedImage, grid, piecesById, trayOrder,
                   placements, selectedPieceId, isGenerating, error, boardFlash,
                   isModalOpen>>
    /\ FilterEffects
    /\ UNCHANGED resetConfirmOpen

EdgeNext == ShapesNew \/ ShapesAgain

EdgeSpec == EdgeInit /\ [][EdgeNext]_vars

\* ------------------------------------------------------------------------
\* Hints (helpRadius, hintRectForPiece)
\* ------------------------------------------------------------------------

MaxHintSide == 5

HelpLevels == {"simple", "medium", "advanced"}

helpRadius(level) ==
    CASE level = "simple" -> 0
      [] level = "medium" -> 1
      [] level = "advanced" -> 2

\* Mutant of hintRectForPiece: the rectangle is not clamped to the grid.
hintRectForPiece_unclamped(g, pieceRow, pieceCol, level) ==
    LET rad == helpRadius(level) IN
    [r0 |-> pieceRow - rad, c0 |-> pieceCol - rad,
     r1 |-> pieceRow + rad, c1 |-> pieceCol + rad]

hintRectForPiece(g, pieceRow, pieceCol, level) ==
    LET rad == helpRadius(level) IN
    [r0 |-> clamp(pieceRow - rad, 0, g.rows - 1),
     c0 |-> clamp(pieceCol - rad, 0, g.cols - 1),
     r1 |-> clamp(pieceRow + rad, 0, g.rows - 1),
     c1 |-> clamp(pieceCol + rad, 0, g.cols - 1)]

\* A puzzle of any grid up to MaxHintSide with one of its pieces selected.
HintInit ==
    /\ pieceCount = 1
    /\ loadedImage = NoImage
    /\ rotationEnabled = FALSE
    /\ grid \in { [rows |-> r, cols |-> c, count |-> r * c] :
                    r \in 1..MaxHintSide, c \in 1..MaxHintSide }
    /\ piecesById \in generatePieces(grid, FALSE)
    /\ trayOrder = IdsOf(piecesById)
    /\ placements = NullArray(grid.count)
    /\ selectedPieceId \in 0..(grid.count - 1)
    /\ isGenerating = FALSE
    /\ error = FALSE
    /\ boardFlash = "none"
    /\ isModalOpen = FALSE
    /\ gen = NoGen
    /\ zoomCells = NoZone
    /\ filterByZoom = FALSE
    /\ filterEdgesOnly = FALSE
    /\ resetConfirmOpen = FALSE

\* The memo hintRectStyle up to its call of hintRectForPiece, for the help
\* level the user has chosen.
HintRect(level) ==
    /\ selectedPieceId # NULL
    /\ HasPiece(piecesById, selectedPieceId)
    /\ IF gen.kind = "hint" THEN gen.level # level ELSE TRUE
    /\ LET p == At(piecesById, selectedPieceId) IN
       gen' = [kind |-> "hint", level |-> level,
               rect |-> hintRectForPiece(grid, p.row, p.col, level)]
    /\ UNCHANGED <<pieceCount, rotationEnabled, loadedImage, grid, piecesById, trayOrder,
                   placements, selectedPieceId, isGenerating, error, boardFlash,
                   isModalOpen>>
    /\ FilterEffects
    /\ UNCHANGED resetConfirmOpen

HintNext == \E level \in HelpLevels : HintRect(level)

HintSpec == HintInit /\ [][HintNext]_vars

\* ------------------------------------------------------------------------
\* Zoom zone and tray filters in play
\* ------------------------------------------------------------------------

MaxFilterTray == 3

\* The grid of the filter specification: the smallest with a piece that is
\* not an edge piece.
FilterGrid == [rows |-> 3, cols |-> 3, count |-> 9]

\* The zones a drag can select: at least 2 by 2 cells.
Zones(g) ==
    { z \in [r0 : 0..(g.rows - 1), c0 : 0..(g.cols - 1),
             r1 : 0..(g.rows - 1), c1 : 0..(g.cols - 1)] :
        z.r1 - z.r0 + 1 >= 2 /\ z.c1 - z.c0 + 1 >= 2 }

\* A puzzle of FilterGrid in play, rotation disabled, the page shown: every
\* piece is in place but those of left, at most MaxFilterTray, still in the
\* tray.
FilterInit ==
    /\ pieceCount = FilterGrid.count
    /\ loadedImage = <<120, 120>>
    /\ rotationEnabled = FALSE
    /\ grid = FilterGrid
    /\ \E left \in SUBSET (0..(FilterGrid.count - 1)) :
         /\ Cardinality(left) <= MaxFilterTray
         /\ piecesById = [k \in 1..FilterGrid.count |->
                [id |-> k - 1, row |-> (k - 1) \div FilterGrid.cols,
                 col |-> (k - 1) % FilterGrid.cols, rotation |-> 0,
                 placed |-> (k - 1) \notin left]]
         /\ trayOrder = SortAsc(left)
         /\ placements = [k \in 1..FilterGrid.count |->
                IF (k - 1) \in left THEN NULL ELSE k - 1]
    /\ selectedPieceId = NULL
    /\ isGenerating = FALSE
    /\ error = FALSE
    /\ boardFlash = "none"
    /\ isModalOpen = FALSE
    /\ gen = NoGen
    /\ zoomCells = NoZone
    /\ filterByZoom = FALSE
    /\ filterEdgesOnly = FALSE
    /\ resetConfirmOpen = FALSE

\* The zoom button, switching the region mode on.
ZoomModeOn ==
    /\ PageActive
    /\ grid # NoGrid
    /\ ~isGenerating
    /\ zoomCells' = NoZone
    /\ filterByZoom' = FALSE
    /\ UNCHANGED resetConfirmOpen
    /\ filterEdgesOnly' = edgeFilterEffect(filterEdgesOnly, trayOrder, piecesById, placements,
                                           rotationEnabled, grid, NoZone, FALSE)
    /\ UNCHANGED <<pieceCount, rotationEnabled, loadedImage, grid, piecesById, trayOrder,
                   placements, selectedPieceId, isGenerating, error, boardFlash,
                   isModalOpen, gen>>

\* The end of a drag in region mode: onPointerUp.
ZoomSelect(zone) ==
    /\ PageActive
    /\ grid # NoGrid
    /\ zoomCells = NoZone
    /\ ~filterByZoom
    /\ zone \in Zones(grid)
    /\ zoomCells' = zone
    /\ UNCHANGED resetConfirmOpen
    /\ filterEdgesOnly' = edgeFilterEffect(filterEdgesOnly, trayOrder, piecesById, placements,
                                           rotationEnabled, grid, zone, filterByZoom)
    /\ UNCHANGED <<pieceCount, rotationEnabled, loadedImage, grid, piecesById, trayOrder,
                   placements, selectedPieceId, isGenerating, error, boardFlash,
                   isModalOpen, gen, filterByZoom>>

\* "Quitter zoom" and the Escape key.
ZoomExit ==
    /\ PageActive
    /\ zoomCells # NoZone
    /\ zoomCells' = NoZone
    /\ UNCHANGED resetConfirmOpen
    /\ filterEdgesOnly' = edgeFilterEffect(filterEdgesOnly, trayOrder, piecesById, placements,
                                           rotationEnabled, grid, NoZone, filterByZoom)
    /\ UNCHANGED <<pieceCount, rotationEnabled, loadedImage, grid, piecesById, trayOrder,
                   placements, selectedPieceId, isGenerating, error, boardFlash,
                   isModalOpen, gen, filterByZoom>>

\* The checkbox "Pièces de la zone uniquement".
SetFilterByZoom(checked) ==
    /\ PageActive
    /\ grid # NoGrid
    /\ zoomCells # NoZone
    /\ ~isGenerating
    /\ filterByZoom' = checked
    /\ selectedPieceId' = zoneSelectionEffect(selectedPieceId, piecesById, checked, zoomCells)
    /\ UNCHANGED resetConfirmOpen
    /\ filterEdgesOnly' = edgeFilterEffect(filterEdgesOnly, trayOrder, piecesById, placements,
                                           rotationEnabled, grid, zoomCells, checked)
    /\ UNCHANGED <<pieceCount, rotationEnabled, loadedImage, grid, piecesById, trayOrder,
                   placements, isGenerating, error, boardFlash, isModalOpen, gen, zoomCells>>

\* The checkbox "Bords uniquement", shown while edge pieces are available.
SetFilterEdgesOnly(checked) ==
    /\ PageActive
    /\ grid # NoGrid
    /\ edgePiecesAvailable
    /\ ~isGenerating
    /\ UNCHANGED resetConfirmOpen
    /\ filterEdgesOnly' = edgeFilterEffect(checked, trayOrder, piecesById, placements,
                                           rotationEnabled, grid, zoomCells, filterByZoom)
    /\ UNCHANGED <<pieceCount, rotationEnabled, loadedImage, grid, piecesById, trayOrder,
                   placements, selectedPieceId, isGenerating, error, boardFlash,
                   isModalOpen, gen, zoomCells, filterByZoom>>

FilterNext ==
    \/ \E id \in 0..(FilterGrid.count - 1) : TrayClick(id)
    \/ \E id \in 0..(FilterGrid.count - 1) : PlacedPieceClick(id)
    \/ \E idx \in 0..(FilterGrid.count - 1) : BoardClick(idx)
    \/ SolveAll
    \/ ZoomModeOn
    \/ \E zone \in Zones(FilterGrid) : ZoomSelect(zone)
    \/ ZoomExit
    \/ \E checked \in BOOLEAN : SetFilterByZoom(checked)
    \/ \E checked \in BOOLEAN : SetFilterEdgesOnly(checked)

FilterSpec == FilterInit /\ [][FilterNext]_vars

\* ------------------------------------------------------------------------
\* Progress reports of one generatePieces run
\* ------------------------------------------------------------------------

MaxProgressSide == 6

\* done % 12 === 0
ProgressEvery == 12

\* done % 24 === 0
YieldEvery == 24

\* Mutant of reportsProgress: the completion is not reported.
reportsProgress_noFinal(done, total) == done % ProgressEvery = 0

\* done % 12 === 0 || done === total
reportsProgress(done, total) == done % ProgressEvery = 0 \/ done = total

\* A call of generatePieces on a grid, with an onProgress callback: no piece
\* is finished, the callback has not been invoked. The frame of the call is
\* held in gen: calls is the sequence of the arguments onProgress got.
ProgressInit ==
    /\ pieceCount = 1
    /\ loadedImage = <<120, 120>>
    /\ rotationEnabled = FALSE
    /\ grid \in { [rows |-> r, cols |-> c, count |-> r * c] :
                    r \in 1..MaxProgressSide, c \in 1..MaxProgressSide }
    /\ piecesById = <<>>
    /\ trayOrder = <<>>
    /\ placements = <<>>
    /\ selectedPieceId = NULL
    /\ isGenerating = TRUE
    /\ error = FALSE
    /\ boardFlash = "none"
    /\ isModalOpen = FALSE
    /\ gen = [kind |-> "pieces", total |-> grid.rows * grid.cols, done |-> 0,
              calls |-> <<>>, awaiting |-> FALSE, returned |-> FALSE]
    /\ zoomCells = NoZone
    /\ filterByZoom = FALSE
    /\ filterEdgesOnly = FALSE
    /\ resetConfirmOpen = FALSE

\* One turn of the inner loop: the piece is pushed, done++, the callback is
\* invoked when due, and the run awaits a timeout every 24 pieces.
PieceDone ==
    /\ gen.kind = "pieces"
    /\ ~gen.awaiting
    /\ gen.done < gen.total
    /\ LET done == gen.done + 1 IN
       gen' = [gen EXCEPT
                 !.done = done,
                 !.calls = IF reportsProgress(done, gen.total)
                           THEN Append(@, [done |-> done, total |-> gen.total])
                           ELSE @,
                 !.awaiting = (done % YieldEvery = 0)]
    /\ UNCHANGED <<pieceCount, rotationEnabled, loadedImage, grid, piecesById, trayOrder,
                   placements, selectedPieceId, isGenerating, error, boardFlash,
                   isModalOpen>>
    /\ FilterEffects
    /\ UNCHANGED resetConfirmOpen

\* The timeout of the await fires: the loop goes on.
ProgressResume ==
    /\ gen.kind = "pieces"
    /\ gen.awaiting
    /\ gen' = [gen EXCEPT !.awaiting = FALSE]
    /\ UNCHANGED <<pieceCount, rotationEnabled, loadedImage, grid, piecesById, trayOrder,
                   placements, selectedPieceId, isGenerating, error, boardFlash,
                   isModalOpen>>
    /\ FilterEffects
    /\ UNCHANGED resetConfirmOpen

\* return pieces
ProgressReturn ==
    /\ gen.kind = "pieces"
    /\ ~gen.awaiting
    /\ gen.done = gen.total
    /\ ~gen.returned
    /\ gen' = [gen EXCEPT !.returned = TRUE]
    /\ UNCHANGED <<pieceCount, rotationEnabled, loadedImage, grid, piecesById, trayOrder,
                   placements, selectedPieceId, isGenerating, error, boardFlash,
                   isModalOpen>>
    /\ FilterEffects
    /\ UNCHANGED resetConfirmOpen

ProgressNext ==
    \/ PieceDone
    \/ ProgressResume
    \/ ProgressReturn

ProgressSpec == ProgressInit /\ [][ProgressNext]_vars


TypeOK ==
    /\ pieceCount \in PIECE_COUNTS
    /\ rotationEnabled \in BOOLEAN
    /\ selectedPieceId \in {NULL} \cup 0..(MaxCount - 1)
    /\ boardFlash \in {"none", "good", "bad", "warn"}
    /\ Len(trayOrder) <= MaxCount

\* ------------------------------------------------------------------------
\* Vocabulary of the properties
\* ------------------------------------------------------------------------

\* Number of positions of seq that hold x.
Occurrences(seq, x) == Cardinality({ k \in 1..Len(seq) : seq[k] = x })

\* A puzzle has been generated: the catalog holds pieces.
HasPuzzle == Len(piecesById) > 0

\* Piece id is locked: placed, on the cell of its own index, and in the
\* right orientation when rotation is enabled.
Locked(id) ==
    /\ HasPiece(piecesById, id)
    /\ piecesById[id + 1].placed
    /\ id < Len(placements)
    /\ placements[id + 1] = id
    /\ (rotationEnabled => piecesById[id + 1].rotation = 0)

\* The selected piece exists: AttemptPlace has a piece to place.
SelectedExists == selectedPieceId # NULL /\ HasPiece(piecesById, selectedPieceId)

\* A step of the user on the page or the keyboard: the generation in flight,
\* if any, is left as it is.
PlayStep == gen' = gen

\* The ids of trayOrder other than id, in their order.
TrayWithout(id) == SelectSeq(trayOrder, LAMBDA x : x # id)

C2_PlaceIff ==
    [][\A k \in 0..(MaxCount - 1) :
         (PlayStep /\ SelectedExists /\ BoardClick(k)) =>
            LET p == selectedPieceId
                valid == p = k /\ At(placements, k) \in {NULL, p}
            IN  IF valid
                THEN placements' = [placements EXCEPT ![k + 1] = p]
                ELSE placements' = placements]_vars

\* C2 witness: a piece has been put on the board by a click and pieces
\* remain in the tray.
C2_Witness ==
    /\ boardFlash \in {"good", "warn"}
    /\ Len(trayOrder) > 0
    /\ \E k \in 1..Len(placements) : placements[k] = k - 1

\* C3: a board click on a cell that is not the selected piece's own cell
\* changes nothing but the feedback, which is the failure feedback.
C3_WrongCellNoChange ==
    [][\A k \in 0..(MaxCount - 1) :
         (PlayStep /\ SelectedExists /\ selectedPieceId # k /\ BoardClick(k)) =>
            /\ UNCHANGED <<trayOrder, placements, piecesById, selectedPieceId>>
            /\ boardFlash' = "bad"]_vars

\* C3 witness: failure feedback with a selected piece still in the tray and
\* an empty board.
C3_Witness ==
    /\ boardFlash = "bad"
    /\ SelectedExists
    /\ ~piecesById[selectedPieceId + 1].placed
    /\ Len(trayOrder) = Len(piecesById)

C5_PlaceWrongOrientation ==
    [][\A k \in 0..(MaxCount - 1) :
         (/\ PlayStep
          /\ SelectedExists
          /\ selectedPieceId = k
          /\ rotationEnabled
          /\ piecesById[k + 1].rotation # 0
          /\ At(placements, k) = NULL
          /\ BoardClick(k)) =>
            /\ placements' = [placements EXCEPT ![k + 1] = k]
            /\ piecesById' = [piecesById EXCEPT ![k + 1].placed = TRUE]
            /\ Occurrences(trayOrder', k) = 0
            /\ trayOrder' = TrayWithout(k)
            /\ boardFlash' = "warn"
            /\ selectedPieceId' = k]_vars

\* C5 witness: wrong-orientation feedback, the selected piece sits on its
\* own cell with a rotation other than 0.
C5_Witness ==
    /\ boardFlash = "warn"
    /\ rotationEnabled
    /\ SelectedExists
    /\ piecesById[selectedPieceId + 1].placed
    /\ piecesById[selectedPieceId + 1].rotation # 0
    /\ At(placements, selectedPieceId) = selectedPieceId

\* C6: a click that would select a locked piece, on the placed piece or on
\* its board cell while nothing is selected, leaves selectedPieceId as it was.
C6_LockedNotSelectable ==
    [][\A id \in 0..(MaxCount - 1) :
         (PlayStep /\ Locked(id)
          /\ (PlacedPieceClick(id) \/ (selectedPieceId = NULL /\ BoardClick(id)))) =>
            selectedPieceId' = selectedPieceId]_vars

\* C6 witness: a locked piece on the board while another piece is selected.
C6_Witness ==
    /\ SelectedExists
    /\ \E id \in 0..(MaxCount - 1) : id # selectedPieceId /\ Locked(id)

\* C7: SolveAll leaves trayOrder empty, placements[i] = i for every cell of
\* the grid, every piece of the catalog placed with rotation 0, and no
\* selection.
C7_SolveAll ==
    [][SolveAll =>
         /\ trayOrder' = <<>>
         /\ Len(placements') = grid.count
         /\ \A i \in 0..(grid.count - 1) : placements'[i + 1] = i
         /\ Len(piecesById') = grid.count
         /\ \A k \in 1..Len(piecesById') :
                piecesById'[k].rotation = 0 /\ piecesById'[k].placed
         /\ selectedPieceId' = NULL]_vars

\* C7 witness: a solved board reached with pieces that rotation would
\* otherwise keep unlocked: everything placed, tray empty, success feedback.
C7_Witness ==
    /\ HasPuzzle
    /\ trayOrder = <<>>
    /\ boardFlash = "good"
    /\ selectedPieceId = NULL
    /\ \A id \in 0..(grid.count - 1) : Locked(id)

C9_UnplaceLockedNoChange ==
    [][(Unplace /\ Locked(selectedPieceId)) =>
         UNCHANGED <<placements, trayOrder, piecesById>>]_vars

RotateRequest(id) == (selectedPieceId = id /\ KeyR) \/ PieceRotateBtn(id)

\* rotatePiece90 applied four times to piece id.
Rotate4(pieces, id) ==
    rotatePiece90(rotatePiece90(rotatePiece90(rotatePiece90(pieces, id), id), id), id)

\* C11: with rotation enabled, a Rotate request on an existing piece sets
\* its rotation to (rotation + 90) mod 360 and changes no other piece, and
\* four rotations in a row of that piece give back the catalog it started
\* from.
C11_RotateCycle ==
    [][\A id \in 0..(MaxCount - 1) :
         (PlayStep /\ rotationEnabled /\ HasPiece(piecesById, id) /\ RotateRequest(id)) =>
            /\ piecesById' = [piecesById EXCEPT
                                 ![id + 1].rotation = (piecesById[id + 1].rotation + 90) % 360]
            /\ Rotate4(piecesById, id) = piecesById
            /\ Rotate4(piecesById', id) = piecesById']_vars

\* C11 witness: a piece put on its cell in a wrong orientation has been
\* turned until it locked.
C11_Witness ==
    /\ rotationEnabled
    /\ boardFlash = "warn"
    /\ gen = NoGen
    /\ selectedPieceId = NULL
    /\ \E id \in 0..(MaxCount - 1) : Locked(id)

\* C12: while rotation is disabled a Rotate request changes nothing.
C12_RotateDisabledNoChange ==
    [][(~rotationEnabled /\ \E id \in 0..(MaxCount - 1) : RotateRequest(id)) =>
         UNCHANGED vars]_vars

\* C12 witness: rotation disabled while a piece of the tray is selected.
C12_Witness ==
    /\ ~rotationEnabled
    /\ SelectedExists
    /\ ~piecesById[selectedPieceId + 1].placed
    /\ gen = NoGen

\* C13: when the generation of a load or of a restart completes (the step
\* that ends it is not the failure step), trayOrder holds every id of
\* [0, count) exactly once, placements has count cells all empty, and the
\* catalog has count pieces, none of them placed.
C13_GenerationAllInTray ==
    [][(gen.kind \in {"load", "restart"} /\ gen' = NoGen /\ ~GenFail) =>
         LET n == gen.grid.count IN
         /\ Len(trayOrder') = n
         /\ \A id \in 0..(n - 1) : \E k \in 1..n : trayOrder'[k] = id
         /\ Len(placements') = n
         /\ \A k \in 1..n : placements'[k] = NULL
         /\ Len(piecesById') = n
         /\ \A k \in 1..n : piecesById'[k].id = k - 1 /\ ~piecesById'[k].placed]_vars

\* C13 witness: a freshly generated puzzle of several pieces whose tray is
\* not in id order.
C13_Witness ==
    /\ gen = NoGen
    /\ ~isGenerating
    /\ Len(piecesById) > 1
    /\ Len(trayOrder) = Len(piecesById)
    /\ trayOrder[1] # 0
    /\ \A k \in 1..Len(placements) : placements[k] = NULL

ShownIds ==
    { trayOrder[k] : k \in 1..Len(trayOrder) }
    \cup ({ placements[k] : k \in 1..Len(placements) } \ {NULL, UNDEF})

C17_GenFailSignalled ==
    [][GenFail => (error' /\ UNCHANGED <<piecesById, trayOrder, placements>>)]_vars

\* The divisor pairs <<rows, cols>> of n.
DivisorPairs(n) == { <<d, n \div d>> : d \in { k \in 1..n : n % k = 0 } }

\* The score of pair p against the image of the state is at most that of
\* pair q: |ln(x)| compared as max(x, 1/x), x = (cols * h) / (rows * w).
ScoreAtMost(p, q) ==
    LET w == loadedImage[1]
        h == loadedImage[2]
        pHi == IF p[2] * h >= p[1] * w THEN p[2] * h ELSE p[1] * w
        pLo == IF p[2] * h >= p[1] * w THEN p[1] * w ELSE p[2] * h
        qHi == IF q[2] * h >= q[1] * w THEN q[2] * h ELSE q[1] * w
        qLo == IF q[2] * h >= q[1] * w THEN q[1] * w ELSE q[2] * h
    IN  pHi * qLo <= qHi * pLo

\* The pairs of least score.
BestPairs(n) ==
    { p \in DivisorPairs(n) : \A q \in DivisorPairs(n) : ScoreAtMost(p, q) }

\* C18: the grid findBestGrid returns has rows >= 1, cols >= 1,
\* rows * cols = pieceCount and count = pieceCount.
C18_GridExact ==
    grid # NoGrid =>
        /\ grid.rows >= 1
        /\ grid.cols >= 1
        /\ grid.rows * grid.cols = pieceCount
        /\ grid.count = pieceCount

\* C18 witness: a grid solved for a count with several divisors that is
\* neither a single row nor a single column.
C18_Witness ==
    /\ grid # NoGrid
    /\ pieceCount = 12
    /\ grid.rows > 1
    /\ grid.cols > 1

\* C19: the pair findBestGrid returns has the least score of all divisor
\* pairs of pieceCount; for 50 pieces and aspect 2 it is 5 rows, 10 columns.
C19_GridMinimal ==
    grid # NoGrid =>
        /\ <<grid.rows, grid.cols>> \in BestPairs(pieceCount)
        /\ (pieceCount = 50 /\ loadedImage[1] = 2 * loadedImage[2]) =>
               (grid.rows = 5 /\ grid.cols = 10)

\* C19 witness: 50 pieces on an image of aspect 2 solved as 5 by 10.
C19_Witness ==
    /\ pieceCount = 50
    /\ loadedImage = <<2, 1>>
    /\ grid = [rows |-> 5, cols |-> 10, count |-> 50]

\* C20: when several divisor pairs have the least score, findBestGrid
\* returns the one with the least rows.
C20_TieSmallestRows ==
    grid # NoGrid =>
        \A p \in BestPairs(pieceCount) : grid.rows <= p[1]

IsPrime(n) == n > 1 /\ \A d \in 2..(n - 1) : n % d # 0

\* C21 (as stated): for a prime pieceCount and any aspect ratio,
\* findBestGrid returns the strip of 1 row and pieceCount columns.
C21_PrimeStripOriginal ==
    (grid # NoGrid /\ IsPrime(pieceCount)) =>
        (grid.rows = 1 /\ grid.cols = pieceCount)

\* C21 (amended): for a prime pieceCount findBestGrid returns a strip and
\* never rejects: 1 row when the image is wider than tall, 1 column when
\* it is taller than wide, one of the two when it is square.
C21_PrimeStrip ==
    (grid # NoGrid /\ IsPrime(pieceCount)) =>
        /\ grid.count = pieceCount
        /\ \/ grid.rows = 1 /\ grid.cols = pieceCount
           \/ grid.rows = pieceCount /\ grid.cols = 1
        /\ loadedImage[1] > loadedImage[2] => grid.rows = 1
        /\ loadedImage[1] < loadedImage[2] => grid.cols = 1

\* C21 witness: 7 pieces on an image twice as tall as wide solved as one
\* column of 7 rows.
C21_Witness ==
    /\ pieceCount = 7
    /\ loadedImage = <<1, 2>>
    /\ grid = [rows |-> 7, cols |-> 1, count |-> 7]

\* C22: for a piece count below 1 or an aspect ratio not above 0 no grid is
\* produced.
C22_BadInputRejected ==
    (pieceCount < 1 \/ loadedImage[1] < 1) => grid = NoGrid

\* The pairs of cells on the two sides of an interior boundary: a cell and
\* the cell below it, a cell and the cell right of it.
Stacked == { p \in Cells(grid) \X Cells(grid) :
               p[2][1] = p[1][1] + 1 /\ p[2][2] = p[1][2] }

Adjacent == { p \in Cells(grid) \X Cells(grid) :
                p[2][1] = p[1][1] /\ p[2][2] = p[1][2] + 1 }

\* Two sides drawn for one boundary fit: sign and skew negated, widthF and
\* neckF identical, the tab displaced the same way for both (so it leaves
\* one piece and enters the other) and at the same place of the boundary.
Fits(ea, eb, pa, pb) ==
    /\ ea.sign = -eb.sign
    /\ ea.sign # 0
    /\ ea.widthF = eb.widthF
    /\ ea.neckF = eb.neckF
    /\ ~pa.isFlat /\ ~pb.isFlat
    /\ pa.skew = -pb.skew
    /\ pa.widthF = pb.widthF
    /\ pa.neckF = pb.neckF
    /\ pa.disp = pb.disp
    /\ pa.tipAt = pb.tipAt
    /\ pa.baseAt = pb.baseAt

\* C23: on every interior boundary the two pieces resolve the shared edge
\* to negated sign and negated skew with the same widthF and neckF, and
\* draw the tab displaced the same way at the same point of the boundary.
C23_EdgesComplementary ==
    gen # NoGen =>
        /\ \A p \in Stacked :
             Fits(gen.e[p[1]].bottom, gen.e[p[2]].top,
                  gen.path[p[1]].bottom, gen.path[p[2]].top)
        /\ \A p \in Adjacent :
             Fits(gen.e[p[1]].right, gen.e[p[2]].left,
                  gen.path[p[1]].right, gen.path[p[2]].left)

\* C23 witness: a 2 by 2 grid generated with a horizontal boundary whose
\* skew is not 0 and whose tab leaves the upper piece.
C23_Witness ==
    /\ gen # NoGen
    /\ grid.rows = 2 /\ grid.cols = 2
    /\ gen.edges.hEdges[0][0].skewF # 0
    /\ gen.e[<<0, 0>>].bottom.sign = 1
    /\ gen.e[<<1, 0>>].top.sign = -1

\* C24: an edge of a piece has sign 0 exactly when it lies on the outer
\* boundary of the grid; every other edge has sign 1 or -1.
C24_FlatIffBorder ==
    gen # NoGen =>
        \A rc \in Cells(grid) :
            /\ gen.e[rc].top.sign = 0 <=> rc[1] = 0
            /\ gen.e[rc].bottom.sign = 0 <=> rc[1] = grid.rows - 1
            /\ gen.e[rc].left.sign = 0 <=> rc[2] = 0
            /\ gen.e[rc].right.sign = 0 <=> rc[2] = grid.cols - 1
            /\ \A side \in {gen.e[rc].top, gen.e[rc].bottom, gen.e[rc].left, gen.e[rc].right} :
                   side.sign \in {-1, 0, 1}

\* C24 witness: a 3 by 3 grid generated, whose centre piece has no flat
\* edge and whose corner piece has two.
C24_Witness ==
    /\ gen # NoGen
    /\ grid.rows = 3 /\ grid.cols = 3
    /\ gen.e[<<1, 1>>].top.sign # 0 /\ gen.e[<<1, 1>>].left.sign # 0
    /\ gen.e[<<1, 1>>].bottom.sign # 0 /\ gen.e[<<1, 1>>].right.sign # 0
    /\ gen.e[<<0, 0>>].top.sign = 0 /\ gen.e[<<0, 0>>].left.sign = 0

\* C25: a generation with the grid and the seed of the previous one
\* produces the same edge specs.
C25_SameSeedSameEdges ==
    [][(gen # NoGen /\ gen' # NoGen /\ gen'.seed = gen.seed /\ gen'.grid = gen.grid)
         => gen'.edges = gen.edges]_vars

\* A step of a cosmetic regeneration: its start, the generation of a piece,
\* its completion or its failure.
RegenMove ==
    \/ gen.kind = "none" /\ gen'.kind = "regen"
    \/ gen.kind = "regen" /\ gen' # gen

C27_HintRect ==
    gen.kind = "hint" =>
        LET p == At(piecesById, selectedPieceId)
            rad == IF gen.level = "simple" THEN 0
                   ELSE IF gen.level = "medium" THEN 1 ELSE 2
            max(a, b) == IF a >= b THEN a ELSE b
            min(a, b) == IF a <= b THEN a ELSE b
            r == gen.rect
        IN  /\ r.r0 = max(0, p.row - rad)
            /\ r.r1 = min(grid.rows - 1, p.row + rad)
            /\ r.c0 = max(0, p.col - rad)
            /\ r.c1 = min(grid.cols - 1, p.col + rad)
            /\ 0 <= r.r0 /\ r.r0 <= p.row /\ p.row <= r.r1 /\ r.r1 <= grid.rows - 1
            /\ 0 <= r.c0 /\ r.c0 <= p.col /\ p.col <= r.c1 /\ r.c1 <= grid.cols - 1

\* C27 witness: the advanced hint of a piece at a corner of a 5 by 5 grid,
\* cut by the grid on two sides and full on the two others.
C27_Witness ==
    /\ gen.kind = "hint"
    /\ gen.level = "advanced"
    /\ grid.rows = 5 /\ grid.cols = 5
    /\ selectedPieceId = 24
    /\ gen.rect = [r0 |-> 2, c0 |-> 2, r1 |-> 4, c1 |-> 4]

\* The pieces the tray can offer under the current zone filter: those of
\* trayOrder that are not correctly placed and, when the zone filter is on
\* with a zone selected, whose cell is in the zone.
OfferedUnderZoneFilter ==
    { id \in { trayOrder[k] : k \in 1..Len(trayOrder) } :
        /\ HasPiece(piecesById, id)
        /\ ~isPieceCorrect(piecesById[id + 1], placements, rotationEnabled)
        /\ (filterByZoom /\ zoomCells # NoZone) => InZone(piecesById[id + 1], zoomCells) }

\* An edge piece remains available under the current zone filter.
EdgeRemainsAvailable ==
    /\ grid # NoGrid
    /\ \E id \in OfferedUnderZoneFilter : IsEdgePiece(piecesById[id + 1], grid)

\* C28: in every state in which the user can act, the edge-pieces filter is
\* not on while no edge piece remains available under the current zone
\* filter: the filter has been switched off before the next user action.
C28_EdgeFilterAutoOff == filterEdgesOnly => EdgeRemainsAvailable

\* A piece has just been put in place, pieces remain in the tray under the
\* zone filter, none of them an edge piece while an edge piece outside the
\* zone is still in the tray, and the edge filter is off.
C28_Witness ==
    /\ boardFlash = "good"
    /\ filterByZoom
    /\ zoomCells # NoZone
    /\ OfferedUnderZoneFilter # {}
    /\ ~EdgeRemainsAvailable
    /\ \E k \in 1..Len(trayOrder) : IsEdgePiece(piecesById[trayOrder[k] + 1], grid)
    /\ ~filterEdgesOnly

\* Select(id): a click on piece id in the tray or on the board.
Select(id) == TrayClick(id) \/ PlacedPieceClick(id)

\* C29: Select changes nothing but selectedPieceId (trayOrder, placements and
\* every piece's rotation and placed flag are unchanged, as is the rest of
\* the state), and Select of the piece already selected changes nothing:
\* a step that leaves the generation alone either keeps all of that or is
\* not a Select.
C29_SelectFrame ==
    [][\A id \in 0..(Len(piecesById) - 1) :
         \/ ~PlayStep
         \/ /\ UNCHANGED <<trayOrder, placements, piecesById, pieceCount, rotationEnabled,
                           loadedImage, grid, isGenerating, error, boardFlash, isModalOpen,
                           zoomCells, filterByZoom, filterEdgesOnly,
                           resetConfirmOpen>>
            /\ (selectedPieceId = id => selectedPieceId' = id)
         \/ ~Select(id)]_vars

\* A piece of the tray is selected while another piece is on the board, not
\* in place: both kinds of Select have a piece to act on.
C29_Witness ==
    /\ selectedPieceId # NULL
    /\ \E k \in 1..Len(trayOrder) : trayOrder[k] = selectedPieceId
    /\ \E id \in placedPieces :
         /\ HasPiece(piecesById, id)
         /\ ~isPieceCorrect(piecesById[id + 1], placements, rotationEnabled)

\* Piece id is in the tray: it is not placed and trayOrder holds its id.
InTray(id) ==
    /\ HasPiece(piecesById, id)
    /\ ~piecesById[id + 1].placed
    /\ \E k \in 1..Len(trayOrder) : trayOrder[k] = id

\* C30: unplacePiece applied to a piece that is in the tray is a no-op:
\* trayOrder keeps its order and gets no second copy of the id, and
\* placements and the pieces are unchanged.
C30_UnplaceTrayNoOp ==
    [][\A id \in 0..(MaxCount - 1) :
         (PlayStep /\ InTray(id) /\ UnplaceCall(id)) =>
           UNCHANGED <<trayOrder, placements, piecesById>>]_vars

\* A piece is in the tray while another piece is on the board: unplacePiece
\* has a tray piece to be called on, in a state where it is not idle for
\* every piece.
C30_Witness ==
    /\ isGenerating = FALSE
    /\ PageActive
    /\ \E id \in 0..(MaxCount - 1) : InTray(id)
    /\ \E id \in 0..(MaxCount - 1) : HasPiece(piecesById, id) /\ piecesById[id + 1].placed

\* The numbers of finished pieces at which a report is due, so far.
ReportPoints ==
    { d \in 1..gen.done : d % 12 = 0 \/ d = gen.total }

\* C31: during one generatePieces run the progress callback has been invoked
\* exactly at the points where the number of finished pieces is a multiple
\* of 12 or equals total, with strictly increasing done values and a
\* constant total, and once the run has returned its last invocation
\* reported done = total.
C31_ProgressCadence ==
    /\ Len(gen.calls) = Cardinality(ReportPoints)
    /\ \A k \in 1..Len(gen.calls) :
         /\ gen.calls[k].done \in ReportPoints
         /\ gen.calls[k].total = grid.rows * grid.cols
    /\ \A k \in 1..(Len(gen.calls) - 1) : gen.calls[k].done < gen.calls[k + 1].done
    /\ gen.returned =>
         /\ Len(gen.calls) > 0
         /\ gen.calls[Len(gen.calls)].done = grid.rows * grid.cols

\* A run over more than 24 pieces, not a multiple of 12, has returned: the
\* callback was invoked at 12, at 24 and at total.
C31_Witness ==
    /\ gen.returned
    /\ gen.total > 24
    /\ gen.total % 12 # 0
    /\ Len(gen.calls) = 3

\* The session state a usage error must leave alone, and the error flag.
UsageErrorAbsorbed == UNCHANGED <<trayOrder, placements, piecesById, error>>

\* C32: rotating an unknown piece id, AttemptPlace while the selected id has
\* no piece in the catalog, and AttemptPlace with a cell index outside
\* [0, count) each leave trayOrder, placements (its length included) and
\* every piece unchanged, and raise no error.
C32_UsageErrorsNoOp ==
    [][PlayStep =>
         /\ \A id \in StaleRefs :
              (~HasPiece(piecesById, id) /\ RotateCall(id)) => UsageErrorAbsorbed
         /\ \A cellIdx \in StaleRefs :
              (/\ selectedPieceId # NULL
               /\ ~HasPiece(piecesById, selectedPieceId)
               /\ AttemptPlaceCall(cellIdx)) => UsageErrorAbsorbed
         /\ \A cellIdx \in StaleRefs :
              (/\ selectedPieceId # NULL
               /\ grid # NoGrid
               /\ cellIdx \notin 0..(grid.count - 1)
               /\ AttemptPlaceCall(cellIdx)) => UsageErrorAbsorbed]_vars

\* A puzzle is in play with a piece on the board, the selection refers to
\* no piece of the catalog, and an attempt has just been refused.
C32_Witness ==
    /\ HasPuzzle
    /\ ~isGenerating
    /\ selectedPieceId # NULL
    /\ ~HasPiece(piecesById, selectedPieceId)
    /\ \E k \in 1..Len(piecesById) : piecesById[k].placed
    /\ boardFlash = "bad"

\* C33: each cell of placements is either empty or holds the piece whose id
\* is the index of the cell: no piece is ever on a cell other than its own.
C33_OwnCellOnly ==
    \A k \in 1..Len(placements) : placements[k] \in {NULL, k - 1}

\* A piece has been put on the board in a wrong orientation while another
\* cell is still empty: the board is neither empty nor solved.
C33_Witness ==
    /\ boardFlash = "warn"
    /\ \E k \in 1..Len(placements) : placements[k] = k - 1
    /\ \E k \in 1..Len(placements) : placements[k] = NULL

C35_SelectionNotLocked ==
    selectedPieceId # NULL => ~Locked(selectedPieceId)

\* Piece id is locked after the step, on its cell with rotation 0, and had
\* rotation 0 before it.
StaysLocked(id) ==
    /\ HasPiece(piecesById', id)
    /\ piecesById'[id + 1].placed
    /\ At(placements', id) = id
    /\ piecesById[id + 1].rotation = 0
    /\ piecesById'[id + 1].rotation = 0

C37_FlagTracksRuns == isGenerating <=> Len(gen) > 0

\* The pair the loop over the divisors leaves in `best`, the doubles
\* rounding as rnd.
EnumeratedBest(n, w, h, rnd) ==
    BestOver(divisors(n), 1,
             [rows |-> 1, cols |-> n, score |-> [hi |-> 1, lo |-> 1, rows |-> 0],
              inf |-> TRUE],
             n, w, h, rnd)

\* C38: the final orientation swap of findBestGrid never changes the
\* outcome: for every piece count and every aspect, however the doubles
\* round, the grid returned is the pair the divisor enumeration selected.
C38_SwapNeverTaken ==
    [][SolveGrid =>
          \A rnd \in Rounding :
              LET e == EnumeratedBest(pieceCount, loadedImage[1], loadedImage[2], rnd)
              IN  findBestGrid(pieceCount, loadedImage[1], loadedImage[2], rnd)
                      = [rows |-> e.rows, cols |-> e.cols, count |-> pieceCount]]_vars

\* C38 witness: 10 pieces on a square image solved as 5 rows by 2 columns:
\* the enumeration selected the portrait pair of a tie, and the swap test,
\* which compares it with 2 rows by 5 columns, left it.
C38_Witness ==
    /\ pieceCount = 10
    /\ loadedImage = <<1, 1>>
    /\ grid = [rows |-> 5, cols |-> 2, count |-> 10]

\* C39: whenever the edge-pieces filter is applied to the tray
\* (filterEdgesOnly is on and edge pieces are reported available), the list
\* of tray candidates is not empty, for the zone and the zone-filter setting
\* of the state and for every other zone and setting over the same tray.
C39_EdgeTrayNotEmpty ==
    /\ (filterEdgesOnly /\ edgePiecesAvailable) => Len(trayCandidates.ids) > 0
    /\ \A zc \in Zones(grid) \cup {NoZone}, byZoom \in BOOLEAN :
          LET t == trayCandidatesOf(trayOrder, piecesById, placements, rotationEnabled,
                                    grid, zc, byZoom, TRUE)
          IN  t.edgesAvailable => Len(t.ids) > 0

\* C39 witness: the edge filter is applied with a zone selected and the
\* zone filter off, and the tray lists an edge piece from outside the zone.
C39_Witness ==
    /\ filterEdgesOnly
    /\ edgePiecesAvailable
    /\ zoomCells # NoZone
    /\ ~filterByZoom
    /\ \E k \in 1..Len(trayCandidates.ids) :
          ~InZone(piecesById[trayCandidates.ids[k] + 1], zoomCells)

\* The edge filter goes from on to off in a step in which the user does not
\* uncheck it.
EdgeFilterAutoDisabled ==
    /\ filterEdgesOnly
    /\ ~filterEdgesOnly'
    /\ ~SetFilterEdgesOnly(FALSE)

\* A not-yet-correct edge piece of the tray lies in the selected zone, or,
\* with no zone selected, in the tray at all.
EdgeInFocus ==
    /\ grid # NoGrid
    /\ \E k \in 1..Len(trayOrder) :
          /\ HasPiece(piecesById, trayOrder[k])
          /\ ~isPieceCorrect(piecesById[trayOrder[k] + 1], placements, rotationEnabled)
          /\ IsEdgePiece(piecesById[trayOrder[k] + 1], grid)
          /\ zoomCells # NoZone => InZone(piecesById[trayOrder[k] + 1], zoomCells)

\* C40 as stated: the edge filter is auto-disabled only when no edge piece
\* remains among the candidates the active zone filter lets through; with
\* the zone filter off it stays on as long as a not-yet-correct edge piece
\* is in the tray, zone selected or not.
C40_OffOnlyUnderActiveFilter ==
    [][EdgeFilterAutoDisabled => ~EdgeRemainsAvailable']_vars

\* C40 amended: the edge filter is auto-disabled only when no
\* not-yet-correct edge piece of the tray remains in the selected zone,
\* whether the zone filter is on or off, or, with no zone selected, in the
\* tray at all.
C40_OffOnlyOutOfFocus ==
    [][EdgeFilterAutoDisabled => ~EdgeInFocus']_vars

\* C40 witness: a piece has just been put in place with a zone selected and
\* the zone filter off; no edge piece of the zone is left in the tray, an
\* edge piece outside the zone is, and the edge filter is off.
C40_Witness ==
    /\ boardFlash = "good"
    /\ zoomCells # NoZone
    /\ ~filterByZoom
    /\ ~filterEdgesOnly
    /\ ~EdgeInFocus
    /\ EdgeRemainsAvailable

====
